---- MODULE Spec2Model ----
(***************************************************************************)
(* A model of kitlangton/given: the version model (src/model/version.rs),  *)
(* the update-options engine (src/model/update_options.rs), the span       *)
(* editor (src/parser/span.rs), the dependency map and the rewrite of the  *)
(* project files (src/dependency_resolver/mod.rs) and the selection state  *)
(* of the terminal application (src/cli).                                  *)
(*                                                                         *)
(* Text is a sequence of one-character strings; a byte offset of the code  *)
(* is an index into that sequence (offset i is element i + 1).             *)
(***************************************************************************)
EXTENDS Integers, Sequences, FiniteSets, TLC

VARIABLES
    \* version comparison (src/model/version.rs)
    va, vb, vc, ordering,
    \* update options (src/model/update_options.rs)
    current, available, tiers, options,
    \* span editor (src/parser/span.rs)
    original, edits, result,
    \* dependency map (src/dependency_resolver/mod.rs)
    map, merged,
    \* the application (src/cli, src/main.rs)
    files, entry_map, selected_index, show_group, decided_to_update,
    \* the message the search task has sent and update has not handled yet
    message,
    \* parsing and display (src/model/version.rs)
    version_text, parsed, displayed, reparsed,
    \* dependency extraction (src/parser/mod.rs)
    code_tree, val_defs, parsed_dependencies, scala_version,
    \* file collection (src/dependency_resolver/mod.rs)
    project_tree, collected,
    \* where the run stands: "input" while inputs are drawn, "done" once the
    \* operation has run (the application has phases of its own)
    phase

versionVars == <<va, vb, vc, ordering>>
optionVars  == <<current, available, tiers, options>>
editVars    == <<original, edits, result>>
mapVars     == <<map, merged>>
parseVars   == <<version_text, parsed, displayed, reparsed>>
parserVars  == <<code_tree, val_defs, parsed_dependencies, scala_version>>
collectVars == <<project_tree, collected>>
appVars     == <<files, entry_map, selected_index, show_group, decided_to_update>>
vars == <<versionVars, optionVars, editVars, mapVars, appVars, message, parseVars, parserVars,
         collectVars, phase>>

\* The value a part of the state has while the specification at hand does not use it.
Idle == "idle"

-----------------------------------------------------------------------------
(* Text: characters, byte order, slices.                                   *)

\* The byte of each character the model's texts use (ASCII).
Code(c) ==
    CASE c = " "  -> 32
      [] c = "\"" -> 34
      [] c = "+"  -> 43
      [] c = "-"  -> 45
      [] c = "."  -> 46
      [] c = "0"  -> 48
      [] c = "1"  -> 49
      [] c = "2"  -> 50
      [] c = "3"  -> 51
      [] c = "4"  -> 52
      [] c = "5"  -> 53
      [] c = "6"  -> 54
      [] c = "7"  -> 55
      [] c = "8"  -> 56
      [] c = "9"  -> 57
      [] c = "C"  -> 67
      [] c = "M"  -> 77
      [] c = "R"  -> 82
      [] c = "a"  -> 97
      [] c = "b"  -> 98
      [] c = "e"  -> 101
      [] c = "h"  -> 104
      [] c = "i"  -> 105
      [] c = "l"  -> 108
      [] c = "m"  -> 109
      [] c = "p"  -> 112
      [] c = "r"  -> 114
      [] c = "s"  -> 115
      [] c = "t"  -> 116
      [] c = "v"  -> 118
      [] c = "x"  -> 120
      [] c = "y"  -> 121
      [] c = "z"  -> 122

Digits == {"0", "1", "2", "3", "4", "5", "6", "7", "8", "9"}

DigitValue(c) == Code(c) - 48

\* &s[from..to] of Rust: the bytes at offsets from .. to - 1.
Slice(s, from, to) == SubSeq(s, from + 1, to)

\* <str as Ord>::cmp: lexicographic on bytes, a proper prefix is Less.
RECURSIVE StrCmpFrom(_, _, _)
StrCmpFrom(s, t, i) ==
    IF i > Len(s) /\ i > Len(t) THEN "Equal"
    ELSE IF i > Len(s) THEN "Less"
    ELSE IF i > Len(t) THEN "Greater"
    ELSE IF Code(s[i]) < Code(t[i]) THEN "Less"
    ELSE IF Code(s[i]) > Code(t[i]) THEN "Greater"
    ELSE StrCmpFrom(s, t, i + 1)

StrCmp(s, t) == StrCmpFrom(s, t, 1)

\* <u32 as Ord>::cmp
NumCmp(m, n) == IF m < n THEN "Less" ELSE IF m > n THEN "Greater" ELSE "Equal"

\* The offset of the first sep in s, or -1.
Find(s, sep) ==
    IF \E i \in 1..Len(s) : s[i] = sep
    THEN (CHOOSE i \in 1..Len(s) : s[i] = sep /\ \A j \in 1..(i - 1) : s[j] # sep) - 1
    ELSE -1

\* str::splitn(n, sep): at most n parts, the last one holding the rest.
RECURSIVE SplitN(_, _, _)
SplitN(s, n, sep) ==
    IF n <= 1 \/ Find(s, sep) < 0 THEN <<s>>
    ELSE <<Slice(s, 0, Find(s, sep))>> \o SplitN(Slice(s, Find(s, sep) + 1, Len(s)), n - 1, sep)

\* u32::MAX, 4294967295, as its digits (TLC's own integers are narrower).
U32MaxDigits == <<"4", "2", "9", "4", "9", "6", "7", "2", "9", "5">>

\* s without its leading zeros
RECURSIVE StripZeros(_)
StripZeros(s) == IF Len(s) > 1 /\ s[1] = "0" THEN StripZeros(Tail(s)) ELSE s

\* Whether the digits s name a number above u32::MAX.
OverflowsU32(s) ==
    LET d == StripZeros(s)
    IN  \/ Len(d) > Len(U32MaxDigits)
        \/ Len(d) = Len(U32MaxDigits) /\ StrCmp(d, U32MaxDigits) = "Greater"

\* The digits of s from index i on, read as a decimal number.
RECURSIVE DigitsValue(_, _, _)
DigitsValue(s, i, acc) ==
    IF i > Len(s) THEN acc ELSE DigitsValue(s, i + 1, acc * 10 + DigitValue(s[i]))

\* A parse that reads the empty text as 0.
ParseU32EmptyIsZero(s) ==
    LET body == IF Len(s) > 0 /\ s[1] = "+" THEN Tail(s) ELSE s
    IN  IF Len(s) = 0 THEN 0
        ELSE IF Len(body) = 0 \/ \E i \in 1..Len(body) : body[i] \notin Digits THEN -1
        ELSE IF OverflowsU32(body) THEN -1
        ELSE DigitsValue(body, 1, 0)

\* str::parse::<u32>(): an optional '+', then one or more digits, within u32;
\* -1 stands for Err.
ParseU32(s) ==
    LET body == IF Len(s) > 0 /\ s[1] = "+" THEN Tail(s) ELSE s
    IN  IF Len(body) = 0 \/ \E i \in 1..Len(body) : body[i] \notin Digits THEN -1
        ELSE IF OverflowsU32(body) THEN -1
        ELSE DigitsValue(body, 1, 0)

\* u32's Display: the decimal digits, no leading zero.
DigitChar(d) == CHOOSE c \in Digits : DigitValue(c) = d

RECURSIVE DisplayU32(_)
DisplayU32(n) == IF n < 10 THEN <<DigitChar(n)>> ELSE DisplayU32(n \div 10) \o <<DigitChar(n % 10)>>

-----------------------------------------------------------------------------
(* Version and PreRelease (src/model/version.rs).                          *)

\* Option::None of a pre-release.
NoPre == [kind |-> "None", n |-> 0, s |-> <<>>]

RC(n) == [kind |-> "RC", n |-> n, s |-> <<>>]
M(n) == [kind |-> "M", n |-> n, s |-> <<>>]
PreOther(s) == [kind |-> "Other", n |-> 0, s |-> s]

SemVer(major, minor, patch, pre) ==
    [kind |-> "SemVer", major |-> major, minor |-> minor, patch |-> patch,
     pre_release |-> pre, s |-> <<>>]

Other(s) ==
    [kind |-> "Other", major |-> 0, minor |-> 0, patch |-> 0, pre_release |-> NoPre, s |-> s]

IsSemVer(v) == v.kind = "SemVer"

\* Version::pre_release().is_some()
HasPre(v) == IsSemVer(v) /\ v.pre_release # NoPre

\* Version::parse_pre_release
parse_pre_release(value) ==
    IF Len(value) >= 2 /\ value[1] = "R" /\ value[2] = "C"
    THEN LET num == ParseU32(Slice(value, 2, Len(value)))
         IN  RC(IF num < 0 THEN 0 ELSE num)
    ELSE IF Len(value) >= 1 /\ value[1] = "M"
    THEN LET num == ParseU32(Slice(value, 1, Len(value)))
         IN  M(IF num < 0 THEN 0 ELSE num)
    ELSE PreOther(value)

\* Version::parse_semver; <<>> stands for None.
parse_semver(value) ==
    LET parts == SplitN(value, 3, ".")
    IN  IF Len(parts) = 2
        THEN LET major == ParseU32(parts[1])
                 minor_parts == SplitN(parts[2], 2, "-")
                 minor == ParseU32(minor_parts[1])
             IN  IF major < 0 \/ minor < 0 THEN <<>>
                 ELSE <<SemVer(major, minor, 0,
                               IF Len(minor_parts) > 1
                               THEN parse_pre_release(minor_parts[2]) ELSE NoPre)>>
        ELSE IF Len(parts) = 3
        THEN LET major == ParseU32(parts[1])
                 minor == ParseU32(parts[2])
                 patch_parts == SplitN(parts[3], 2, "-")
                 patch == ParseU32(patch_parts[1])
             IN  IF major < 0 \/ minor < 0 \/ patch < 0 THEN <<>>
                 ELSE <<SemVer(major, minor, patch,
                               IF Len(patch_parts) > 1
                               THEN parse_pre_release(patch_parts[2]) ELSE NoPre)>>
        ELSE <<>>

\* Version::new
VersionNew(value) ==
    IF parse_semver(value) # <<>> THEN parse_semver(value)[1] ELSE Other(value)

\* Display of a pre-release without its number.
DisplayPreReleaseNoNumber(p) ==
    CASE p.kind = "RC" -> <<"R", "C">>
      [] p.kind = "M" -> <<"M">>
      [] OTHER -> p.s

\* impl Display for PreRelease
DisplayPreRelease(p) ==
    CASE p.kind = "RC" -> <<"R", "C">> \o DisplayU32(p.n)
      [] p.kind = "M" -> <<"M">> \o DisplayU32(p.n)
      [] OTHER -> p.s

\* impl Display for Version
DisplayVersion(v) ==
    IF IsSemVer(v)
    THEN DisplayU32(v.major) \o <<".">> \o DisplayU32(v.minor) \o <<".">> \o DisplayU32(v.patch)
         \o (IF v.pre_release # NoPre THEN <<"-">> \o DisplayPreRelease(v.pre_release) ELSE <<>>)
    ELSE v.s

\* PreRelease's cmp with the M arms tried before the RC arms: M sorts above RC.
PreReleaseCmpMFirst(p, q) ==
    IF p.kind = "RC" /\ q.kind = "RC" THEN NumCmp(p.n, q.n)
    ELSE IF p.kind = "M" /\ q.kind = "M" THEN NumCmp(p.n, q.n)
    ELSE IF p.kind = "M" THEN "Greater"
    ELSE IF q.kind = "M" THEN "Less"
    ELSE IF p.kind = "RC" THEN "Greater"
    ELSE IF q.kind = "RC" THEN "Less"
    ELSE StrCmp(p.s, q.s)

\* impl Ord for PreRelease: the match arms in the order of the code
PreReleaseCmp(p, q) ==
    IF p.kind = "RC" /\ q.kind = "RC" THEN NumCmp(p.n, q.n)
    ELSE IF p.kind = "M" /\ q.kind = "M" THEN NumCmp(p.n, q.n)
    ELSE IF p.kind = "RC" THEN "Greater"
    ELSE IF q.kind = "RC" THEN "Less"
    ELSE IF p.kind = "M" THEN "Greater"
    ELSE IF q.kind = "M" THEN "Less"
    ELSE StrCmp(p.s, q.s)

\* The tuple comparison with the patch left out.
BaseCmpNoPatch(v, w) ==
    IF v.major # w.major THEN NumCmp(v.major, w.major) ELSE NumCmp(v.minor, w.minor)

\* (m1, n1, p1).cmp(&(m2, n2, p2))
BaseCmp(v, w) ==
    IF v.major # w.major THEN NumCmp(v.major, w.major)
    ELSE IF v.minor # w.minor THEN NumCmp(v.minor, w.minor)
    ELSE NumCmp(v.patch, w.patch)

\* The SemVer arm with (None, Some(_)) answering Less like (Some(_), None).
SemVerCmpBothLess(v, w) ==
    IF BaseCmp(v, w) = "Equal"
    THEN IF v.pre_release # NoPre /\ w.pre_release # NoPre
         THEN PreReleaseCmp(v.pre_release, w.pre_release)
         ELSE IF v.pre_release # NoPre THEN "Less"
         ELSE IF w.pre_release # NoPre THEN "Less"
         ELSE "Equal"
    ELSE BaseCmp(v, w)

\* impl Ord for Version, the arm of two SemVer values
SemVerCmp(v, w) ==
    IF BaseCmp(v, w) = "Equal"
    THEN IF v.pre_release # NoPre /\ w.pre_release # NoPre
         THEN PreReleaseCmp(v.pre_release, w.pre_release)
         ELSE IF v.pre_release # NoPre THEN "Less"
         ELSE IF w.pre_release # NoPre THEN "Greater"
         ELSE "Equal"
    ELSE BaseCmp(v, w)

\* Version's cmp with the two mixed arms exchanged: Other sorts below SemVer.
VersionCmpOtherLow(v, w) ==
    IF IsSemVer(v) /\ IsSemVer(w) THEN SemVerCmp(v, w)
    ELSE IF IsSemVer(v) THEN "Greater"
    ELSE IF IsSemVer(w) THEN "Less"
    ELSE StrCmp(v.s, w.s)

\* impl Ord for Version
VersionCmp(v, w) ==
    IF IsSemVer(v) /\ IsSemVer(w) THEN SemVerCmp(v, w)
    ELSE IF IsSemVer(v) THEN "Less"
    ELSE IF IsSemVer(w) THEN "Greater"
    ELSE StrCmp(v.s, w.s)

Lt(v, w) == VersionCmp(v, w) = "Less"
Gt(v, w) == VersionCmp(v, w) = "Greater"
Le(v, w) == VersionCmp(v, w) # "Greater"

Reverse(o) == CASE o = "Less" -> "Greater" [] o = "Greater" -> "Less" [] OTHER -> "Equal"

-----------------------------------------------------------------------------
(* Comparing versions: three version texts are parsed and compared.        *)

\* The version texts the comparison is run on.
VersionTexts ==
    { <<"1", ".", "0", ".", "0">>,
      <<"1", ".", "0", ".", "0", "-", "R", "C", "1">>,
      <<"1", ".", "0", ".", "0", "-", "R", "C", "2">>,
      <<"1", ".", "0", ".", "0", "-", "R", "C", "1", "0">>,
      <<"1", ".", "0", ".", "0", "-", "M", "1">>,
      <<"1", ".", "0", ".", "0", "-", "M", "3">>,
      <<"1", ".", "0", ".", "0", "-", "a">>,
      <<"1", ".", "0", ".", "0", "-", "a", "b">>,
      <<"1", ".", "0", ".", "0", "-", "b">>,
      <<"0", ".", "9", ".", "9", "-", "R", "C", "2">>,
      <<"1", ".", "0", ".", "1">>,
      <<"1", ".", "2">>,
      <<"2", ".", "0", ".", "0">>,
      <<"1", "0", ".", "0", ".", "0">>,
      <<"1", ".", "0", ".", "0", ".", "0">>,
      <<"9">>,
      <<"a">>,
      <<"a", "b">>,
      <<"b">> }

ParsedVersions == {VersionNew(t) : t \in VersionTexts}

InitVersion ==
    /\ va \in ParsedVersions
    /\ vb \in ParsedVersions
    /\ vc \in ParsedVersions
    /\ ordering = Idle
    /\ phase = "input"

\* a.cmp(&b) and the comparisons a claim relates it to; the pre-releases of a
\* and b are compared with PreRelease's own cmp when both have one.
Compare ==
    /\ phase = "input"
    /\ phase' = "done"
    /\ ordering' = [ab |-> VersionCmp(va, vb), ba |-> VersionCmp(vb, va),
                    bc |-> VersionCmp(vb, vc), ac |-> VersionCmp(va, vc),
                    pre |-> IF HasPre(va) /\ HasPre(vb)
                            THEN PreReleaseCmp(va.pre_release, vb.pre_release)
                            ELSE Idle]
    /\ UNCHANGED <<va, vb, vc>>

-----------------------------------------------------------------------------
(* UpdateOptions (src/model/update_options.rs).                            *)

\* Option<T>: None is the empty sequence, Some(x) the sequence of x alone.
None == <<>>
Some(x) == <<x>>

\* slice::sort of itertools' sorted(): stable, by Version's cmp.
RECURSIVE InsertSorted(_, _)
InsertSorted(sorted, v) ==
    IF sorted = <<>> THEN <<v>>
    ELSE IF Gt(sorted[Len(sorted)], v)
    THEN InsertSorted(SubSeq(sorted, 1, Len(sorted) - 1), v) \o <<sorted[Len(sorted)]>>
    ELSE Append(sorted, v)

RECURSIVE SortVersions(_)
SortVersions(vs) ==
    IF vs = <<>> THEN <<>>
    ELSE InsertSorted(SortVersions(SubSeq(vs, 1, Len(vs) - 1)), vs[Len(vs)])

\* .filter(|v| matches!(v, Version::SemVer { .. }) && *v > current)
IsCandidate(v, cur) == IsSemVer(v) /\ Gt(v, cur)

RECURSIVE FilterCandidates(_, _)
FilterCandidates(vs, cur) ==
    IF vs = <<>> THEN <<>>
    ELSE (IF IsCandidate(vs[1], cur) THEN <<vs[1]>> ELSE <<>>) \o FilterCandidates(Tail(vs), cur)

\* UpdateOptions::default()
DefaultOptions == [major |-> None, minor |-> None, patch |-> None, pre_release |-> None]

\* Version::major(), minor(), patch() as Option<u32>, None below every Some.
OptMajor(v) == IF IsSemVer(v) THEN v.major ELSE -1
OptMinor(v) == IF IsSemVer(v) THEN v.minor ELSE -1
OptPatch(v) == IF IsSemVer(v) THEN v.patch ELSE -1

\* The loop body keeping the first candidate of a tier instead of the last.
TierStepKeepFirst(opts, v, cur) ==
    IF OptMajor(v) > OptMajor(cur) /\ ~HasPre(v)
    THEN (IF opts.major = None THEN [opts EXCEPT !.major = Some(v)] ELSE opts)
    ELSE IF OptMinor(v) > OptMinor(cur) /\ ~HasPre(v)
    THEN (IF opts.minor = None THEN [opts EXCEPT !.minor = Some(v)] ELSE opts)
    ELSE IF OptPatch(v) > OptPatch(cur) /\ ~HasPre(v)
    THEN (IF opts.patch = None THEN [opts EXCEPT !.patch = Some(v)] ELSE opts)
    ELSE IF HasPre(v)
    THEN (IF opts.pre_release = None THEN [opts EXCEPT !.pre_release = Some(v)] ELSE opts)
    ELSE opts

\* The loop body with every tier tested on its own instead of in a chain.
TierStepEveryTier(opts, v, cur) ==
    [major |-> IF OptMajor(v) > OptMajor(cur) /\ ~HasPre(v) THEN Some(v) ELSE opts.major,
     minor |-> IF OptMinor(v) > OptMinor(cur) /\ ~HasPre(v) THEN Some(v) ELSE opts.minor,
     patch |-> IF OptPatch(v) > OptPatch(cur) /\ ~HasPre(v) THEN Some(v) ELSE opts.patch,
     pre_release |-> IF HasPre(v) THEN Some(v) ELSE opts.pre_release]

\* One pass of the loop of get_options_semver over candidate v.
TierStep(opts, v, cur) ==
    IF OptMajor(v) > OptMajor(cur) /\ ~HasPre(v) THEN [opts EXCEPT !.major = Some(v)]
    ELSE IF OptMinor(v) > OptMinor(cur) /\ ~HasPre(v) THEN [opts EXCEPT !.minor = Some(v)]
    ELSE IF OptPatch(v) > OptPatch(cur) /\ ~HasPre(v) THEN [opts EXCEPT !.patch = Some(v)]
    ELSE IF HasPre(v) THEN [opts EXCEPT !.pre_release = Some(v)]
    ELSE opts

\* The loop of get_options_semver over the sorted candidates.
RECURSIVE TierLoop(_, _, _)
TierLoop(opts, vs, cur) ==
    IF vs = <<>> THEN opts ELSE TierLoop(TierStep(opts, vs[1], cur), Tail(vs), cur)

\* The options of get_options_semver before the pre-release is looked at again.
Tiers(cur, avail) == TierLoop(DefaultOptions, SortVersions(FilterCandidates(avail, cur)), cur)

\* major.iter().chain(minor.iter()).chain(patch.iter())
StableOptions(opts) ==
    {opts.major[i] : i \in DOMAIN opts.major} \cup {opts.minor[i] : i \in DOMAIN opts.minor}
        \cup {opts.patch[i] : i \in DOMAIN opts.patch}

\* The pre-release looked at again against the major option alone.
SuppressPreReleaseMajorOnly(opts) ==
    IF opts.pre_release # None
       /\ \E i \in DOMAIN opts.major : Le(opts.pre_release[1], opts.major[i])
    THEN [opts EXCEPT !.pre_release = None]
    ELSE opts

\* "Keep only pre-release versions that are greater than any other version"
SuppressPreRelease(opts) ==
    IF opts.pre_release # None
       /\ \E v \in StableOptions(opts) : Le(opts.pre_release[1], v)
    THEN [opts EXCEPT !.pre_release = None]
    ELSE opts

\* UpdateOptions::is_empty
IsEmptyOptions(opts) ==
    opts.major = None /\ opts.minor = None /\ opts.patch = None /\ opts.pre_release = None

\* get_options_semver returning its options without looking at is_empty.
get_options_semverAlwaysSome(cur, avail) == Some(SuppressPreRelease(Tiers(cur, avail)))

\* UpdateOptions::get_options_semver
get_options_semver(cur, avail) ==
    LET update_options == SuppressPreRelease(Tiers(cur, avail))
    IN  IF IsEmptyOptions(update_options) THEN None ELSE Some(update_options)

ZeroVersion == VersionNew(<<"0", ".", "0", ".", "0">>)

\* UpdateOptions::new comparing against the current version whatever it is.
UpdateOptionsNewAsIs(cur, avail) == get_options_semver(cur, avail)

\* UpdateOptions::new
UpdateOptionsNew(cur, avail) ==
    IF IsSemVer(cur) THEN get_options_semver(cur, avail)
    ELSE get_options_semver(ZeroVersion, avail)

-----------------------------------------------------------------------------
(* Computing update options: a current version, a list of available        *)
(* versions pushed one at a time, then UpdateOptions::new.                 *)

MaxAvailable == 4

CurrentTexts ==
    { <<"1", ".", "2", ".", "3">>,
      <<"1", ".", "2", ".", "3", "-", "R", "C", "1">>,
      <<"x">> }

AvailableTexts ==
    { <<"1", ".", "2", ".", "1">>,
      <<"1", ".", "2", ".", "3">>,
      <<"1", ".", "2", ".", "3", "-", "R", "C", "1">>,
      <<"1", ".", "2", ".", "4">>,
      <<"1", ".", "2", ".", "4", "-", "R", "C", "1">>,
      <<"1", ".", "3", ".", "0">>,
      <<"2", ".", "0", ".", "0">>,
      <<"2", ".", "3", ".", "4">>,
      <<"3", ".", "0", ".", "0">>,
      <<"3", ".", "0", ".", "1", "-", "M", "1">>,
      <<"x">> }

InitOptions ==
    /\ current \in {VersionNew(t) : t \in CurrentTexts}
    /\ available = <<>>
    /\ tiers = Idle
    /\ options = Idle
    /\ phase = "input"

\* The registry's answer grows by one version.
PushAvailable ==
    /\ phase = "input"
    /\ Len(available) < MaxAvailable
    /\ \E t \in AvailableTexts : available' = Append(available, VersionNew(t))
    /\ UNCHANGED <<current, tiers, options, phase>>

\* UpdateOptions::new(&current, &available); tiers keeps what the loop held
\* before the pre-release was looked at again.
ComputeOptions ==
    /\ phase = "input"
    /\ phase' = "done"
    /\ options' = UpdateOptionsNew(current, available)
    /\ tiers' = Tiers(IF IsSemVer(current) THEN current ELSE ZeroVersion, available)
    /\ UNCHANGED <<current, available>>

-----------------------------------------------------------------------------
(* Edit::apply_edits (src/parser/span.rs).                                 *)

Span(start, end) == [start |-> start, end |-> end]
Edit(span, text) == [span |-> span, text |-> text]

\* sorted_edits.sort_by_key(|e| e.span.start): stable
RECURSIVE InsertByStart(_, _)
InsertByStart(sorted, e) ==
    IF sorted = <<>> THEN <<e>>
    ELSE IF sorted[Len(sorted)].span.start > e.span.start
    THEN InsertByStart(SubSeq(sorted, 1, Len(sorted) - 1), e) \o <<sorted[Len(sorted)]>>
    ELSE Append(sorted, e)

\* The edits left in the order they were supplied.
SortByStartOmitted(es) == es

RECURSIVE SortByStart(_)
SortByStart(es) ==
    IF es = <<>> THEN <<>>
    ELSE InsertByStart(SortByStart(SubSeq(es, 1, Len(es) - 1)), es[Len(es)])

\* The loop body without its overlap check.
EditStepNoSkip(w, edit, text) ==
    [result |-> w.result \o Slice(text, w.last_index, edit.span.start) \o edit.text,
     last_index |-> edit.span.end,
     previous_end |-> edit.span.end,
     kept |-> Append(w.kept, edit)]

\* One pass of the loop of apply_edits; kept lists the edits not skipped.
EditStep(w, edit, text) ==
    IF edit.span.start < w.previous_end THEN w
    ELSE [result |-> w.result \o Slice(text, w.last_index, edit.span.start) \o edit.text,
          last_index |-> edit.span.end,
          previous_end |-> edit.span.end,
          kept |-> Append(w.kept, edit)]

RECURSIVE EditLoop(_, _, _)
EditLoop(w, es, text) ==
    IF es = <<>> THEN w ELSE EditLoop(EditStep(w, es[1], text), Tail(es), text)

\* The state of apply_edits after its loop.
EditWalk(es, text) ==
    EditLoop([result |-> <<>>, last_index |-> 0, previous_end |-> 0, kept |-> <<>>],
             SortByStart(es), text)

\* Edit::apply_edits
apply_edits(es, text) ==
    LET w == EditWalk(es, text)
    IN  w.result \o Slice(text, w.last_index, Len(text))

-----------------------------------------------------------------------------
(* Applying edits: a text, a list of edits pushed one at a time, then      *)
(* apply_edits. Every span lies within the text with start <= end.         *)

MaxEdits == 3

OriginalText == <<"x", "y", "z">>

EditTexts == { <<"1">>, <<"2", "3">> }

Spans(text) == {Span(s, e) : s \in 0..Len(text), e \in 0..Len(text)}

EditInputs ==
    {Edit(sp, t) : sp \in {x \in Spans(OriginalText) : x.start <= x.end}, t \in EditTexts}

InitEdits ==
    /\ original = OriginalText
    /\ edits = <<>>
    /\ result = Idle
    /\ phase = "input"

PushEdit ==
    /\ phase = "input"
    /\ Len(edits) < MaxEdits
    /\ \E ed \in EditInputs : edits' = Append(edits, ed)
    /\ UNCHANGED <<original, result, phase>>

ApplyEdits ==
    /\ phase = "input"
    /\ phase' = "done"
    /\ result' = apply_edits(edits, original)
    /\ UNCHANGED <<original, edits>>

-----------------------------------------------------------------------------
(* DependencyMap (src/dependency_resolver/mod.rs).                         *)

Location(file_path, span) == [file_path |-> file_path, span |-> span]

\* WithSpan<Version>
WithSpan(value, position) == [value |-> value, position |-> position]

\* Dependency
Dependency(group, artifact, version) ==
    [group |-> group, artifact |-> artifact, version |-> version]

\* VersionWithLocations::new
VersionWithLocationsNew(version, location) ==
    [version |-> version, locations |-> <<location>>]

\* add with the version replaced on every call: the last one merged wins.
VersionWithLocationsAddLast(existing, version, location) ==
    [version |-> version, locations |-> Append(existing.locations, location)]

\* add with the locations started over when the version is replaced.
VersionWithLocationsAddReset(existing, version, location) ==
    IF Gt(version, existing.version)
    THEN [version |-> version, locations |-> <<location>>]
    ELSE [version |-> existing.version, locations |-> Append(existing.locations, location)]

\* VersionWithLocations::add
VersionWithLocationsAdd(existing, version, location) ==
    [version |-> IF Gt(version, existing.version) THEN version ELSE existing.version,
     locations |-> Append(existing.locations, location)]

\* DependencyMap::new: a HashMap is a function on the keys it holds.
EmptyMap == <<>>

\* DependencyMap::add_dependency
add_dependency(m, dependency, location) ==
    LET key == <<dependency.group, dependency.artifact>>
    IN  IF key \in DOMAIN m
        THEN [m EXCEPT ![key] = VersionWithLocationsAdd(m[key], dependency.version.value, location)]
        ELSE (key :> VersionWithLocationsNew(dependency.version.value, location)) @@ m

\* DependencyMap::add_file_dependencies over the dependencies from index i on
RECURSIVE add_file_dependencies(_, _, _)
add_file_dependencies(m, fd, i) ==
    IF i > Len(fd.dependencies) THEN m
    ELSE add_file_dependencies(
             add_dependency(m, fd.dependencies[i],
                            Location(fd.file_path, fd.dependencies[i].version.position)),
             fd, i + 1)

\* DependencyMap::from_file_dependencies, from map m on
RECURSIVE from_file_dependencies(_, _)
from_file_dependencies(m, fds) ==
    IF fds = <<>> THEN m
    ELSE from_file_dependencies(add_file_dependencies(m, fds[1], 1), Tail(fds))

-----------------------------------------------------------------------------
(* Merging: dependencies are added to an empty map one at a time; merged   *)
(* keeps the calls made so far.                                            *)

MaxMerges == 3

MergeKeys == { <<"dev.zio", "zio">>, <<"dev.zio", "zio-test">> }

MergeVersionTexts ==
    { <<"1", ".", "0", ".", "0">>,
      <<"1", ".", "0", ".", "0", "-", "R", "C", "1">>,
      <<"2", ".", "0", ".", "0">>,
      <<"x">> }

MergeSpans == { Span(0, 7), Span(8, 15) }

\* The calls on offer: a dependency and the location of its version.
MergeCalls ==
    { [dependency |-> Dependency(k[1], k[2], WithSpan(VersionNew(t), sp)),
       location |-> Location("build.sbt", sp)] :
          k \in MergeKeys, t \in MergeVersionTexts, sp \in MergeSpans }

InitMerge ==
    /\ map = EmptyMap
    /\ merged = <<>>
    /\ phase = "input"

AddDependency ==
    /\ Len(merged) < MaxMerges
    /\ \E call \in MergeCalls :
          /\ map' = add_dependency(map, call.dependency, call.location)
          /\ merged' = Append(merged, call)
    /\ UNCHANGED phase

-----------------------------------------------------------------------------
(* write_version_updates (src/dependency_resolver/mod.rs).                 *)

\* format!("\"{}\"", version)
QuotedVersion(version) == <<"\"">> \o DisplayVersion(version) \o <<"\"">>

\* Step 1 for one update: an edit per location of file f, in their order.
RECURSIVE LocationEdits(_, _, _)
LocationEdits(version, locations, f) ==
    IF locations = <<>> THEN <<>>
    ELSE (IF locations[1].file_path = f
          THEN <<Edit(locations[1].span, QuotedVersion(version))>> ELSE <<>>)
         \o LocationEdits(version, Tail(locations), f)

\* Step 1: updates_by_file[f], the edits of file f in the order of the updates.
RECURSIVE FileEdits(_, _)
FileEdits(updates, f) ==
    IF updates = <<>> THEN <<>>
    ELSE LocationEdits(updates[1].version, updates[1].locations, f)
         \o FileEdits(Tail(updates), f)

\* write_version_updates: every file that has edits is read, edited and
\* written back; fs is the content of the files on disk.
write_version_updates(updates, fs) ==
    [f \in DOMAIN fs |->
        IF FileEdits(updates, f) # <<>> THEN apply_edits(FileEdits(updates, f), fs[f])
        ELSE fs[f]]

-----------------------------------------------------------------------------
(* VersionType (src/model/update_options.rs) and EntryMap                  *)
(* (src/cli/entry_map.rs).                                                 *)

\* VersionType::next
VersionTypeNext(vt) ==
    CASE vt = "Major" -> "Minor"
      [] vt = "Minor" -> "Patch"
      [] vt = "Patch" -> "PreRelease"
      [] vt = "PreRelease" -> "Major"

\* VersionType::prev
VersionTypePrev(vt) ==
    CASE vt = "Major" -> "PreRelease"
      [] vt = "Minor" -> "Major"
      [] vt = "Patch" -> "Minor"
      [] vt = "PreRelease" -> "Patch"

\* The tier of update_options that version_type names.
TierOf(update_options, version_type) ==
    CASE version_type = "Major" -> update_options.major
      [] version_type = "Minor" -> update_options.minor
      [] version_type = "Patch" -> update_options.patch
      [] version_type = "PreRelease" -> update_options.pre_release

\* EntryMap::version_type_exists
version_type_exists(update_options, version_type) ==
    TierOf(update_options, version_type) # None

\* EntryMap::determine_version_type
determine_version_type(update_options) ==
    IF update_options.major # None THEN "Major"
    ELSE IF update_options.minor # None THEN "Minor"
    ELSE IF update_options.patch # None THEN "Patch"
    ELSE "PreRelease"

\* Entry::current_update_version
current_update_version(entry) ==
    IF entry.update_options # None
    THEN TierOf(entry.update_options[1], entry.version_type)
    ELSE None

\* EntryMap::from_dependency_map
from_dependency_map(dependencies) ==
    [k \in DOMAIN dependencies |->
        [group |-> k[1], artifact |-> k[2],
         version |-> dependencies[k].version,
         locations |-> dependencies[k].locations,
         update_options |-> None,
         version_type |-> "Major",
         is_selected |-> FALSE]]

\* (group, artifact).cmp(&(b_group, b_artifact))
KeyCmp(k, l) == IF StrCmp(k[1], l[1]) # "Equal" THEN StrCmp(k[1], l[1]) ELSE StrCmp(k[2], l[2])

\* The keys of ks in ascending order.
RECURSIVE SortKeys(_)
SortKeys(ks) ==
    IF ks = {} THEN <<>>
    ELSE LET least == CHOOSE k \in ks : \A l \in ks : KeyCmp(k, l) # "Greater"
         IN  <<least>> \o SortKeys(ks \ {least})

\* EntryMap::with_updates: the keys of the entries that have update options,
\* sorted by (group, artifact).
with_updates(em) == SortKeys({k \in DOMAIN em : em[k].update_options # None})

\* add_versions moving the entry to the first version retrieved.
AddVersionsToMovingCurrent(entry, versions) ==
    IF versions # <<>> THEN [entry EXCEPT !.version = versions[1]] ELSE entry

\* EntryMap::add_versions for the entry of key k
AddVersionsTo(entry, versions) ==
    IF UpdateOptionsNew(entry.version, versions) # None
    THEN [entry EXCEPT !.update_options = UpdateOptionsNew(entry.version, versions),
                       !.version_type =
                           determine_version_type(UpdateOptionsNew(entry.version, versions)[1])]
    ELSE entry

\* EntryMap::add_versions; every key of versions_map has an entry
add_versions(em, versions_map) ==
    [k \in DOMAIN em |->
        IF k \in DOMAIN versions_map THEN AddVersionsTo(em[k], versions_map[k]) ELSE em[k]]

\* EntryMap::selected: the keys of the selected entries that have a version
\* in the tier chosen.
selected(em) ==
    {k \in DOMAIN em : em[k].is_selected /\ current_update_version(em[k]) # None}

\* The entries for_each_shared_entry visits: those that share a location with
\* the entry of key k.
SharedWith(em, k) ==
    IF k \in DOMAIN em
    THEN {l \in DOMAIN em :
            \E i \in DOMAIN em[l].locations :
                \E j \in DOMAIN em[k].locations : em[l].locations[i] = em[k].locations[j]}
    ELSE {}

\* EntryMap::toggle_selection
toggle_selection(em, k) ==
    [l \in DOMAIN em |->
        IF l \in SharedWith(em, k) THEN [em[l] EXCEPT !.is_selected = ~em[l].is_selected]
        ELSE em[l]]

\* EntryMap::select and EntryMap::deselect
set_selected(em, k, value) ==
    IF k \in DOMAIN em THEN [em EXCEPT ![k].is_selected = value] ELSE em

\* change_version_type stepping once, whether the tier exists or not.
NextTypeUnchecked(update_options, version_type, direction) ==
    IF direction > 0 THEN VersionTypeNext(version_type) ELSE VersionTypePrev(version_type)

\* The loop of change_version_type: step until a tier that exists.
RECURSIVE NextExistingType(_, _, _)
NextExistingType(update_options, version_type, direction) ==
    LET changed == IF direction > 0 THEN VersionTypeNext(version_type)
                   ELSE VersionTypePrev(version_type)
    IN  IF version_type_exists(update_options, changed) THEN changed
        ELSE NextExistingType(update_options, changed, direction)

\* EntryMap::next_version_type (direction 1) and prev_version_type (-1)
change_version_type(em, k, direction) ==
    [l \in DOMAIN em |->
        IF l \in SharedWith(em, k) /\ em[l].update_options # None
        THEN [em[l] EXCEPT !.version_type =
                  NextExistingType(em[l].update_options[1], em[l].version_type, direction)]
        ELSE em[l]]

-----------------------------------------------------------------------------
(* The application: SupApp (src/cli/mod.rs) and main (src/main.rs) on a    *)
(* project of two files.  phase is "loading" from init until the versions  *)
(* arrive, "running" after that, "exited" when update has returned false,  *)
(* "panicked" when a handler has panicked, "done" when main has returned.  *)

MaxDependencies == 2
MaxOutOfRange == 1

\* selected_index: u16
U16Max == 65535

\* The files of the project; the version literals of build.sbt are at bytes
\* 0..7 and 8..15, the one of project/plugins.sbt is at bytes 2..5.
ProjectFiles ==
    ("build.sbt" :>
        <<"\"", "1", ".", "0", ".", "0", "\"", " ",
          "\"", "1", ".", "1", ".", "0", "\"", " ", "z">>)
    @@ ("project/plugins.sbt" :> <<"z", " ", "\"", "x", "\"">>)

LiteralSpans ==
    ("build.sbt" :> {Span(0, 7), Span(8, 15)})
    @@ ("project/plugins.sbt" :> {Span(2, 5)})

AppKeys == { <<<<"a">>, <<"a">>>>, <<<<"a">>, <<"b">>>> }

\* str::trim_matches('"')
RECURSIVE TrimQuotes(_)
TrimQuotes(s) ==
    IF s = <<>> THEN s
    ELSE IF Head(s) = "\"" THEN TrimQuotes(Tail(s))
    ELSE IF s[Len(s)] = "\"" THEN TrimQuotes(SubSeq(s, 1, Len(s) - 1))
    ELSE s

\* extract_text on the node at span sp of code
extract_text(sp, code) == TrimQuotes(Slice(code, sp.start, sp.end))

\* The dependencies a file can yield: a group, an artifact, and the version
\* literal the dependency refers to, with the span of the literal.
FileRecords(f) ==
    { Dependency(k[1], k[2], WithSpan(VersionNew(extract_text(sp, ProjectFiles[f])), sp)) :
        k \in AppKeys, sp \in LiteralSpans[f] }

\* FileDependencies of file f with at most n dependencies.
FileDependencies(f, n) ==
    { [file_path |-> f, dependencies |-> ds] :
        ds \in UNION { [1..m -> FileRecords(f)] : m \in 0..n } }

\* SupApp::default followed by SupApp::init: the entry map of the project.
InitApp ==
    /\ \E build \in FileDependencies("build.sbt", MaxDependencies),
          plugins \in FileDependencies("project/plugins.sbt", 1) :
          entry_map = from_dependency_map(from_file_dependencies(EmptyMap, <<build, plugins>>))
    /\ files = ProjectFiles
    /\ selected_index = 0
    /\ show_group = FALSE
    /\ decided_to_update = FALSE
    /\ message = None
    /\ phase = "loading"

\* The version lists the search can return for a dependency.
RetrievedVersions ==
    { <<>>,
      <<VersionNew(<<"1", ".", "2", ".", "0">>)>>,
      <<VersionNew(<<"1", ".", "2", ".", "0">>), VersionNew(<<"2", ".", "0", ".", "0">>)>>,
      <<VersionNew(<<"1", ".", "1", ".", "1">>), VersionNew(<<"1", ".", "2", ".", "0">>),
        VersionNew(<<"2", ".", "0", ".", "0">>)>> }

\* get_multiple_versions: a list for every key whose search succeeded.
VersionsMaps(keys) == UNION { [ks -> RetrievedVersions] : ks \in SUBSET keys }

Handling == phase \in {"loading", "running"}

\* with_updates().get(selected_index): the key under the cursor, if any.
CursorKey(em, index) ==
    IF index < Len(with_updates(em)) THEN Some(with_updates(em)[index + 1]) ELSE None

Panic ==
    /\ phase' = "panicked"
    /\ UNCHANGED appVars

\* The task init spawns: get_multiple_versions, then send.
SearchCompleted ==
    /\ phase = "loading"
    /\ message = None
    /\ \E versions_map \in VersionsMaps(DOMAIN entry_map) : message' = Some(versions_map)
    /\ UNCHANGED <<appVars, phase>>

\* update on Message::VersionsRetrieved
VersionsRetrieved ==
    /\ phase = "loading"
    /\ message # None
    /\ entry_map' = add_versions(entry_map, message[1])
    /\ message' = None
    /\ phase' = IF with_updates(entry_map') = <<>> THEN "exited" ELSE "running"
    /\ UNCHANGED <<files, selected_index, show_group, decided_to_update>>

\* update on 'q'
KeyQuit ==
    /\ Handling
    /\ phase' = "exited"
    /\ UNCHANGED appVars

\* update on 'j' or Down; u16 addition overflows to a panic or wraps, the
\* remainder by zero panics.
KeyDown ==
    /\ Handling
    /\ LET len == Len(with_updates(entry_map))
       IN  IF len = 0 THEN Panic
           ELSE IF selected_index = U16Max
           THEN \/ Panic
                \/ /\ selected_index' = 0 % len
                   /\ UNCHANGED <<files, entry_map, show_group, decided_to_update, phase>>
           ELSE /\ selected_index' = (selected_index + 1) % len
                /\ UNCHANGED <<files, entry_map, show_group, decided_to_update, phase>>

\* update on 'k' or Up; u16 subtraction overflows to a panic or wraps.
KeyUp ==
    /\ Handling
    /\ LET len == Len(with_updates(entry_map))
       IN  IF selected_index = 0 /\ len = 0
           THEN \/ Panic
                \/ /\ selected_index' = U16Max
                   /\ UNCHANGED <<files, entry_map, show_group, decided_to_update, phase>>
           ELSE /\ selected_index = 0 \/ selected_index - 1 <= len
                   \/ selected_index - 1 >= U16Max - MaxOutOfRange
                /\ selected_index' = IF selected_index = 0 THEN len - 1 ELSE selected_index - 1
                /\ UNCHANGED <<files, entry_map, show_group, decided_to_update, phase>>

\* SupApp::change_version
change_version(em, index, direction) ==
    IF CursorKey(em, index) # None THEN change_version_type(em, CursorKey(em, index)[1], direction)
    ELSE em

\* update on Right or Tab
KeyNextVersion ==
    /\ Handling
    /\ entry_map' = change_version(entry_map, selected_index, 1)
    /\ UNCHANGED <<files, selected_index, show_group, decided_to_update, phase>>

\* update on Left or BackTab
KeyPrevVersion ==
    /\ Handling
    /\ entry_map' = change_version(entry_map, selected_index, -1)
    /\ UNCHANGED <<files, selected_index, show_group, decided_to_update, phase>>

\* SupApp::toggle_selection
app_toggle_selection(em, index) ==
    IF CursorKey(em, index) # None THEN toggle_selection(em, CursorKey(em, index)[1]) ELSE em

\* update on ' '
KeySpace ==
    /\ Handling
    /\ entry_map' = app_toggle_selection(entry_map, selected_index)
    /\ UNCHANGED <<files, selected_index, show_group, decided_to_update, phase>>

\* The loop of toggle_all_selections: select or deselect every key of keys.
RECURSIVE SelectEach(_, _, _)
SelectEach(em, keys, value) ==
    IF keys = <<>> THEN em
    ELSE SelectEach(set_selected(em, keys[1], value), Tail(keys), value)

\* SupApp::toggle_all_selections
toggle_all_selections(em) ==
    LET all_selected == \A i \in DOMAIN with_updates(em) : em[with_updates(em)[i]].is_selected
    IN  SelectEach(em, with_updates(em), ~all_selected)

\* update on 'a'
KeyAll ==
    /\ Handling
    /\ entry_map' = toggle_all_selections(entry_map)
    /\ UNCHANGED <<files, selected_index, show_group, decided_to_update, phase>>

\* update on 'g'
KeyGroup ==
    /\ Handling
    /\ show_group' = ~show_group
    /\ UNCHANGED <<files, entry_map, selected_index, decided_to_update, phase>>

\* update on 'o': the entry under the cursor is unwrapped, its release page
\* is opened by a task of its own.
KeyOpen ==
    /\ Handling
    /\ IF CursorKey(entry_map, selected_index) = None THEN Panic
       ELSE UNCHANGED <<appVars, phase>>

\* update on Enter
KeyEnter ==
    /\ Handling
    /\ decided_to_update' = TRUE
    /\ phase' = "exited"
    /\ UNCHANGED <<files, entry_map, selected_index, show_group>>

\* The orders a HashMap can iterate the keys ks in.
IterationOrders(ks) ==
    { order \in [1..Cardinality(ks) -> ks] :
        \A i, j \in 1..Cardinality(ks) : order[i] = order[j] => i = j }

\* process_updates: the chosen version and the locations of every entry of
\* order.
Updates(em, order) ==
    [i \in DOMAIN order |->
        [version |-> current_update_version(em[order[i]])[1],
         locations |-> em[order[i]].locations]]

\* main after run, the user having decided to update
WriteUpdates ==
    /\ phase = "exited"
    /\ decided_to_update
    /\ \E order \in IterationOrders(selected(entry_map)) :
          files' = write_version_updates(Updates(entry_map, order), files)
    /\ phase' = "done"
    /\ UNCHANGED <<entry_map, selected_index, show_group, decided_to_update>>

\* main after run, the user not having decided to update
Finish ==
    /\ phase = "exited"
    /\ ~decided_to_update
    /\ phase' = "done"
    /\ UNCHANGED appVars

-----------------------------------------------------------------------------
(* Parsing and display: a version text is parsed by Version::new, the      *)
(* version is displayed, and what is displayed is parsed again.            *)

\* The components a version text is made of: digits with and without
\* leading zeros, a signed number, a number above u32::MAX, a word, nothing.
ComponentTexts ==
    { <<"0">>, <<"1">>, <<"0", "2">>, <<"1", "0">>, <<"+", "1">>,
      <<"4", "2", "9", "4", "9", "6", "7", "2", "9", "6">>, <<"x">>, <<>> }

\* The pre-release suffixes a version text ends with.
SuffixTexts ==
    { <<"R", "C", "1">>, <<"R", "C", "0", "2">>, <<"R", "C">>, <<"R", "C", "x">>,
      <<"M", "1">>, <<"M">>, <<"M", "2", "x">>, <<"R", "1">>,
      <<"a", "l", "p", "h", "a">>, <<"b", "e", "t", "a", ".", "5">>, <<>> }

\* Texts with one, two and three dot-separated components.
CoreTexts ==
    ComponentTexts
    \cup { a \o <<".">> \o b : a, b \in ComponentTexts }
    \cup { a \o <<".">> \o b \o <<".">> \o c : a, b, c \in ComponentTexts }

\* Texts of four components, and a text of words.
LongTexts ==
    { <<"4", ".", "5", ".", "5", ".", "5">>,
      <<"1", ".", "0", ".", "2", ".", "x">>,
      <<"i", "-", "h", "a", "t", "e", "-", "s", "e", "m", "v", "e", "r">> }

ParseTexts ==
    CoreTexts \cup LongTexts
    \cup { c \o <<"-">> \o suffix : c \in CoreTexts \cup LongTexts, suffix \in SuffixTexts }

InitParse ==
    /\ version_text \in ParseTexts
    /\ parsed = Idle
    /\ displayed = Idle
    /\ reparsed = Idle
    /\ phase = "input"

\* Version::new(version_text)
ParseText ==
    /\ phase = "input"
    /\ parsed' = VersionNew(version_text)
    /\ phase' = "parsed"
    /\ UNCHANGED <<version_text, displayed, reparsed>>

\* format!("{}", parsed)
DisplayParsed ==
    /\ phase = "parsed"
    /\ displayed' = DisplayVersion(parsed)
    /\ phase' = "displayed"
    /\ UNCHANGED <<version_text, parsed, reparsed>>

\* Version::new(displayed)
ParseDisplayed ==
    /\ phase = "displayed"
    /\ reparsed' = VersionNew(displayed)
    /\ phase' = "done"
    /\ UNCHANGED <<version_text, parsed, displayed>>

-----------------------------------------------------------------------------
(* The syntax tree of a file (src/parser/mod.rs).  A file is a sequence of *)
(* statements; a statement is an optional "val name =" followed by operands *)
(* with an operator between each two, which the grammar nests to the left: *)
(* the infix_expression of the first k operands is the left child of the   *)
(* one of the first k + 1.  The code of the file is its tokens, a space    *)
(* between two tokens and a line feed between two statements.              *)

\* A node of the tree: its kind, its text, its named children.
Node(kind, txt, children) == [kind |-> kind, text |-> txt, children |-> children]

StringNode(s) == Node("string", <<"\"">> \o s \o <<"\"">>, <<>>)
IdentifierNode(s) == Node("identifier", s, <<>>)
OperatorNode(s) == Node("operator_identifier", s, <<>>)

\* object.field: the named children are the two identifiers.
FieldNode(object, field) ==
    Node("field_expression", object \o <<".">> \o field,
         <<IdentifierNode(object), IdentifierNode(field)>>)

\* 123
IntegerNode(s) == Node("integer_literal", s, <<>>)

\* A node with the byte at which it starts in the node it is a child of.
At(node, offset) == [offset |-> offset] @@ node

\* { val name = "value" }: the named child is the val definition, whose named
\* children are the identifier and the string.
BlockNode(name, value) ==
    LET inner == <<"v", "a", "l", " ">> \o name \o <<" ", "=", " ">> \o StringNode(value).text
    IN  Node("block", <<"{", " ">> \o inner \o <<" ", "}">>,
             <<At(Node("val_definition", inner,
                       <<At(IdentifierNode(name), 4),
                         At(StringNode(value), Len(name) + 7)>>), 2)>>)

\* A statement at the top of the file, a val without a type when it is a val.
Statement(val_name, operands, operators) ==
    [val_name |-> val_name, operands |-> operands, operators |-> operators,
     val_type |-> None, scopes |-> <<>>]

\* val name : type = ...
Typed(st, type) == [st EXCEPT !.val_type = Some(type)]

\* object scopes[1] { object scopes[2] { ... } }
Scoped(st, scopes) == [st EXCEPT !.scopes = scopes]

IsValDefinition(st) == st.val_name # None

\* The tokens of operands j .. and the operators between them.
RECURSIVE InfixTokens(_, _)
InfixTokens(st, j) ==
    IF j > Len(st.operands) THEN <<>>
    ELSE (IF j > 1 THEN <<st.operators[j - 1].text>> ELSE <<>>)
         \o <<st.operands[j].text>> \o InfixTokens(st, j + 1)

\* "object name {" for every enclosing scope, and the "}" that close them.
RECURSIVE ScopeTokens(_)
ScopeTokens(scopes) ==
    IF scopes = <<>> THEN <<>>
    ELSE <<<<"o", "b", "j", "e", "c", "t">>, scopes[1], <<"{">>>> \o ScopeTokens(Tail(scopes))

ClosingTokens(scopes) == [i \in DOMAIN scopes |-> <<"}">>]

TypeTokens(st) == IF st.val_type # None THEN <<<<":">>, st.val_type[1]>> ELSE <<>>

ValTokens(st) ==
    IF IsValDefinition(st)
    THEN <<<<"v", "a", "l">>, st.val_name[1]>> \o TypeTokens(st) \o <<<<"=">>>>
    ELSE <<>>

\* The tokens before the first operand.
LeadingTokens(st) == ScopeTokens(st.scopes) \o ValTokens(st)

StatementTokens(st) == LeadingTokens(st) \o InfixTokens(st, 1) \o ClosingTokens(st.scopes)

\* The texts of ts with sep between two of them.
RECURSIVE Joined(_, _)
Joined(ts, sep) ==
    IF ts = <<>> THEN <<>>
    ELSE IF Len(ts) = 1 THEN ts[1]
    ELSE ts[1] \o sep \o Joined(Tail(ts), sep)

StatementText(st) == Joined(StatementTokens(st), <<" ">>)

\* The code of the file.
SourceCode(tree) == Joined([i \in DOMAIN tree |-> StatementText(tree[i])], <<"\n">>)

\* The byte at which statement i starts.
RECURSIVE StatementStart(_, _)
StatementStart(tree, i) ==
    IF i = 1 THEN 0
    ELSE StatementStart(tree, i - 1) + Len(StatementText(tree[i - 1])) + 1

\* The byte, within its statement, at which token t starts.
RECURSIVE TokenStart(_, _)
TokenStart(tokens, t) ==
    IF t = 1 THEN 0 ELSE TokenStart(tokens, t - 1) + Len(tokens[t - 1]) + 1

\* The index of operand j, and of the operator after it, among the tokens.
OperandToken(st, j) == Len(LeadingTokens(st)) + 2 * j - 1
OperatorToken(st, j) == Len(LeadingTokens(st)) + 2 * j

\* start_byte .. end_byte of operand j, and of operator j, of statement i.
OperandSpan(tree, i, j) ==
    LET start == StatementStart(tree, i)
                    + TokenStart(StatementTokens(tree[i]), OperandToken(tree[i], j))
    IN  Span(start, start + Len(tree[i].operands[j].text))

OperatorSpan(tree, i, j) ==
    LET start == StatementStart(tree, i)
                    + TokenStart(StatementTokens(tree[i]), OperatorToken(tree[i], j))
    IN  Span(start, start + Len(tree[i].operators[j].text))

\* start_byte .. end_byte of the right-hand side of val definition i.
RhsSpan(tree, i) ==
    Span(OperandSpan(tree, i, 1).start, OperandSpan(tree, i, Len(tree[i].operands)).end)

\* start_byte .. end_byte of the type of val definition i.
TypeSpan(tree, i) ==
    LET start == StatementStart(tree, i)
                    + TokenStart(StatementTokens(tree[i]), Len(ScopeTokens(tree[i].scopes)) + 4)
    IN  Span(start, start + Len(tree[i].val_type[1]))

\* start_byte .. end_byte of child c of the val definition in block j of
\* statement i.
InnerSpan(tree, i, j, c) ==
    LET definition == tree[i].operands[j].children[1]
        start == OperandSpan(tree, i, j).start + definition.offset + definition.children[c].offset
    IN  Span(start, start + Len(definition.children[c].text))

-----------------------------------------------------------------------------
(* The symbol table and the dependencies of a file (src/parser/mod.rs).    *)

\* The path the file was read from.
SourcePath == "build.sbt"

\* WithLocation<T>
WithLocation(value, location) == [value |-> value, location |-> location]

\* The node after the identifier among the named children of val definition
\* i: its type when it has one, its right-hand side when it has none.
AfterIdentifierSpan(tree, i) ==
    IF tree[i].val_type # None THEN TypeSpan(tree, i) ELSE RhsSpan(tree, i)

\* parse_val on val definition i: the identifier, and the text and the
\* location of the node after it.
parse_val(tree, i) ==
    <<tree[i].val_name[1],
      WithLocation(extract_text(AfterIdentifierSpan(tree, i), SourceCode(tree)),
                   Location(SourcePath, AfterIdentifierSpan(tree, i)))>>

\* parse_val on the val definition in block j of statement i.
parse_val_in_block(tree, i, j) ==
    <<extract_text(InnerSpan(tree, i, j, 1), SourceCode(tree)),
      WithLocation(extract_text(InnerSpan(tree, i, j, 2), SourceCode(tree)),
                   Location(SourcePath, InnerSpan(tree, i, j, 2)))>>

\* parse_vals on the operands j .. of statement i, which is no val
\* definition: the val definition of a block is inserted under its name.
RECURSIVE parse_vals_in(_, _, _, _)
parse_vals_in(tree, i, j, vals) ==
    IF j > Len(tree[i].operands) THEN vals
    ELSE IF tree[i].operands[j].kind = "block"
    THEN parse_vals_in(tree, i, j + 1,
             (parse_val_in_block(tree, i, j)[1] :> parse_val_in_block(tree, i, j)[2]) @@ vals)
    ELSE parse_vals_in(tree, i, j + 1, vals)

\* parse_vals over the statements from i on, whatever scopes they are in: a
\* val definition is inserted under its name, replacing what the name had,
\* and is not looked into; any other statement is looked into.
RECURSIVE parse_vals(_, _, _)
parse_vals(tree, i, vals) ==
    IF i > Len(tree) THEN vals
    ELSE IF IsValDefinition(tree[i])
    THEN parse_vals(tree, i + 1, (parse_val(tree, i)[1] :> parse_val(tree, i)[2]) @@ vals)
    ELSE parse_vals(tree, i + 1, parse_vals_in(tree, i, 1, vals))

\* The first pattern of the query on the infix_expression of the first three
\* operands: string, operator, string, operator, anything.
MatchesGroupFirst(st) ==
    /\ Len(st.operands) >= 3
    /\ st.operands[1].kind = "string"
    /\ st.operators[1].kind = "operator_identifier"
    /\ st.operands[2].kind = "string"
    /\ st.operators[2].kind = "operator_identifier"

\* The second pattern, on the infix_expression of the first four operands:
\* identifier, operator, string, then anything.
MatchesGroupSecond(st) ==
    /\ Len(st.operands) >= 4
    /\ st.operands[1].kind = "identifier"
    /\ st.operators[1].kind = "operator_identifier"
    /\ st.operands[2].kind = "string"

\* The operand captured as @group by the pattern that matches st; @percents
\* is the operator after it, @artifact the next operand, @percent the
\* operator after that, @version the operand after that.
GroupOperand(st) ==
    IF MatchesGroupFirst(st) THEN 1 ELSE IF MatchesGroupSecond(st) THEN 2 ELSE 0

\* percents_text.chars().all(|c| c == '%')
AllPercent(s) == \A i \in DOMAIN s : s[i] = "%"

\* The last named child of node that is an identifier, if any.
LastIdentifier(node) ==
    LET at == {c \in DOMAIN node.children : node.children[c].kind = "identifier"}
    IN  IF at = {} THEN None
        ELSE Some(node.children[CHOOSE c \in at : \A d \in at : d <= c])

\* parse_select
parse_select(node) ==
    IF node.kind = "identifier" THEN Some(TrimQuotes(node.text))
    ELSE IF LastIdentifier(node) # None THEN Some(TrimQuotes(LastIdentifier(node)[1].text))
    ELSE None

\* A lookup that falls back on the name itself when the name is not defined.
ResolvedOrName(vals, ident) ==
    IF ident \in DOMAIN vals
    THEN Some(WithLocation(VersionNew(vals[ident].value), vals[ident].location))
    ELSE Some(WithLocation(VersionNew(ident), Location(SourcePath, Span(0, 0))))

\* val_defs.get(&ident), turned into the version and its location
Resolved(vals, ident) ==
    IF ident \in DOMAIN vals
    THEN Some(WithLocation(VersionNew(vals[ident].value), vals[ident].location))
    ELSE None

\* A version located where it is used, whatever its kind.
VersionOfUseSite(tree, i, j, vals) ==
    LET node == tree[i].operands[j]
        used == Location(SourcePath, OperandSpan(tree, i, j))
    IN  IF node.kind = "string"
        THEN Some(WithLocation(VersionNew(extract_text(OperandSpan(tree, i, j), SourceCode(tree))), used))
        ELSE IF parse_select(node) # None /\ parse_select(node)[1] \in DOMAIN vals
        THEN Some(WithLocation(VersionNew(vals[parse_select(node)[1]].value), used))
        ELSE None

\* The match on the kind of the version node j of statement i.
VersionOf(tree, i, j, vals) ==
    LET node == tree[i].operands[j]
    IN  IF node.kind = "string"
        THEN Some(WithLocation(VersionNew(extract_text(OperandSpan(tree, i, j), SourceCode(tree))),
                               Location(SourcePath, OperandSpan(tree, i, j))))
        ELSE IF node.kind = "identifier"
        THEN Resolved(vals, extract_text(OperandSpan(tree, i, j), SourceCode(tree)))
        ELSE IF parse_select(node) # None THEN Resolved(vals, parse_select(node)[1])
        ELSE None

\* The closure with the test on @percents alone.
MatchedDependencyPercentsOnly(tree, i, vals) ==
    LET st == tree[i]
        g == GroupOperand(st)
        code == SourceCode(tree)
    IN  IF g = 0 THEN None
        ELSE IF ~AllPercent(extract_text(OperatorSpan(tree, i, g), code)) THEN None
        ELSE IF VersionOf(tree, i, g + 2, vals) = None THEN None
        ELSE Some(Dependency(extract_text(OperandSpan(tree, i, g), code),
                             extract_text(OperandSpan(tree, i, g + 1), code),
                             VersionOf(tree, i, g + 2, vals)[1]))

\* The closure of parse_dependencies on the match in statement i, if there is
\* one: None, or the dependency.
MatchedDependency(tree, i, vals) ==
    LET st == tree[i]
        g == GroupOperand(st)
        code == SourceCode(tree)
    IN  IF g = 0 THEN None
        ELSE IF ~AllPercent(extract_text(OperatorSpan(tree, i, g), code)) THEN None
        ELSE IF ~AllPercent(extract_text(OperatorSpan(tree, i, g + 1), code)) THEN None
        ELSE IF VersionOf(tree, i, g + 2, vals) = None THEN None
        ELSE Some(Dependency(extract_text(OperandSpan(tree, i, g), code),
                             extract_text(OperandSpan(tree, i, g + 1), code),
                             VersionOf(tree, i, g + 2, vals)[1]))

\* parse_dependencies over the statements from i on: the dependencies of the
\* matches, in the order of the code.
RECURSIVE parse_dependencies(_, _, _)
parse_dependencies(tree, i, vals) ==
    IF i > Len(tree) THEN <<>>
    ELSE MatchedDependency(tree, i, vals) \o parse_dependencies(tree, i + 1, vals)

\* The statements a file is written from: val definitions, and coordinate
\* declarations with a literal, an identifier and a dotted reference as the
\* version, with other operators, after "l +=" and as the value of a val.
MaxStatements == 3

Percent == OperatorNode(<<"%">>)
Percents == OperatorNode(<<"%", "%">>)
Plus == OperatorNode(<<"+">>)
PlusEquals == OperatorNode(<<"+", "=">>)
Literal300 == StringNode(<<"3", ".", "0", ".", "0">>)

ValStatements ==
    { Statement(Some(<<"v">>), <<StringNode(<<"1", ".", "0", ".", "0">>)>>, <<>>),
      Statement(Some(<<"v">>), <<StringNode(<<"2", ".", "0", ".", "0">>)>>, <<>>),
      Statement(Some(<<"w">>), <<StringNode(<<"0", ".", "4", ".", "0">>)>>, <<>>),
      Statement(Some(<<"x">>),
                <<StringNode(<<"g">>), StringNode(<<"n">>), IdentifierNode(<<"w">>)>>,
                <<Percents, Percent>>) }

DeclarationStatements ==
    { Statement(None, <<StringNode(<<"g">>), StringNode(<<"a">>), Literal300>>,
                <<Percents, Percent>>),
      Statement(None, <<StringNode(<<"g">>), StringNode(<<"b">>), IdentifierNode(<<"v">>)>>,
                <<Percents, Percent>>),
      Statement(None, <<StringNode(<<"g">>), StringNode(<<"c">>), FieldNode(<<"V">>, <<"v">>)>>,
                <<Percent, Percent>>),
      Statement(None, <<StringNode(<<"g">>), StringNode(<<"d">>), IdentifierNode(<<"u">>)>>,
                <<Percents, Percent>>),
      Statement(None, <<StringNode(<<"g">>), StringNode(<<"e">>), FieldNode(<<"V">>, <<"u">>)>>,
                <<Percents, Percent>>),
      Statement(None, <<IdentifierNode(<<"l">>), StringNode(<<"g">>), StringNode(<<"k">>),
                        Literal300, IdentifierNode(<<"T">>)>>,
                <<PlusEquals, Percents, Percent, Percent>>),
      Statement(None, <<IdentifierNode(<<"l">>), StringNode(<<"g">>), StringNode(<<"p">>),
                        Node("field_expression", <<"A", ".", "V", ".", "v">>,
                             <<FieldNode(<<"A">>, <<"V">>), IdentifierNode(<<"v">>)>>)>>,
                <<PlusEquals, Percents, Percent>>) }

OtherOperatorStatements ==
    { Statement(None, <<StringNode(<<"h">>), StringNode(<<"o">>),
                        StringNode(<<"0", ".", "0", ".", "1">>)>>,
                <<Plus, Plus>>),
      Statement(None, <<StringNode(<<"g">>), StringNode(<<"i">>), Literal300>>,
                <<Percents, Plus>>),
      Statement(None, <<StringNode(<<"g">>), StringNode(<<"j">>), Literal300>>,
                <<Plus, Percent>>),
      Statement(None, <<IdentifierNode(<<"l">>), StringNode(<<"g">>), StringNode(<<"m">>),
                        Literal300>>,
                <<PlusEquals, Plus, Plus>>) }

ParserStatements == ValStatements \cup DeclarationStatements \cup OtherOperatorStatements

\* DependencyParser::new, before any code is given to it.
InitParser ==
    /\ code_tree = <<>>
    /\ val_defs = <<>>
    /\ parsed_dependencies = <<>>
    /\ scala_version = None
    /\ phase = "code"

\* One more statement in the file, each statement written once.
PushStatement ==
    /\ phase = "code"
    /\ Len(code_tree) < MaxStatements
    /\ \E st \in ParserStatements :
          /\ \A i \in DOMAIN code_tree : code_tree[i] # st
          /\ code_tree' = Append(code_tree, st)
    /\ UNCHANGED <<val_defs, parsed_dependencies, scala_version, phase>>

\* DependencyParser::parse_val_defs
ParseValDefs ==
    /\ phase = "code"
    /\ phase' = "vals"
    /\ val_defs' = parse_vals(code_tree, 1, val_defs)
    /\ UNCHANGED <<code_tree, parsed_dependencies, scala_version>>

\* The val definitions a file is written from: at the top of the file, in an
\* object, in an object in an object, of a name defined before, with an
\* expression, a number and a block as the value, with a type; and a
\* statement that is no val definition, with a block.
DefinitionStatements ==
    { Statement(Some(<<"v">>), <<StringNode(<<"1", ".", "0", ".", "0">>)>>, <<>>),
      Scoped(Statement(Some(<<"v">>), <<StringNode(<<"2", ".", "0", ".", "0">>)>>, <<>>),
             <<<<"V">>>>),
      Scoped(Statement(Some(<<"w">>), <<StringNode(<<"3", ".", "0", ".", "0">>)>>, <<>>),
             <<<<"A">>, <<"V">>>>),
      Statement(Some(<<"c">>), <<StringNode(<<"g">>), StringNode(<<"h">>)>>, <<Plus>>),
      Statement(Some(<<"n">>), <<IntegerNode(<<"1", "2", "3">>)>>, <<>>),
      Typed(Statement(Some(<<"t">>), <<StringNode(<<"4", ".", "0", ".", "0">>)>>, <<>>),
            <<"S", "t", "r", "i", "n", "g">>),
      Statement(Some(<<"o">>), <<BlockNode(<<"b">>, <<"9", ".", "9", ".", "9">>)>>, <<>>),
      Statement(None, <<IdentifierNode(<<"l">>), BlockNode(<<"d">>, <<"8", ".", "8", ".", "8">>)>>,
                <<PlusEquals>>) }

\* One more definition in the file, each written once.
PushDefinition ==
    /\ phase = "code"
    /\ Len(code_tree) < MaxStatements
    /\ \E st \in DefinitionStatements :
          /\ \A i \in DOMAIN code_tree : code_tree[i] # st
          /\ code_tree' = Append(code_tree, st)
    /\ UNCHANGED <<val_defs, parsed_dependencies, scala_version, phase>>

\* DependencyParser::parse_dependencies
ParseDependencies ==
    /\ phase = "vals"
    /\ phase' = "done"
    /\ parsed_dependencies' = parsed_dependencies \o parse_dependencies(code_tree, 1, val_defs)
    /\ UNCHANGED <<code_tree, val_defs, scala_version>>

-----------------------------------------------------------------------------
(* The Scala version of a build (src/parser/mod.rs).  find_scala_version   *)
(* runs a regular expression over the code of the file, not a query over   *)
(* its tree: the name scalaVersion, white space, the operator, white       *)
(* space, and as group 1 a quoted text or an identifier.                   *)

LowerCase ==
    {"a", "b", "c", "d", "e", "f", "g", "h", "i", "j", "k", "l", "m",
     "n", "o", "p", "q", "r", "s", "t", "u", "v", "w", "x", "y", "z"}
UpperCase ==
    {"A", "B", "C", "D", "E", "F", "G", "H", "I", "J", "K", "L", "M",
     "N", "O", "P", "Q", "R", "S", "T", "U", "V", "W", "X", "Y", "Z"}

\* \s
Whitespace == {" ", "\n", "\t", "\r"}
\* [a-zA-Z_]
IdentifierStart == LowerCase \cup UpperCase \cup {"_"}
\* [a-zA-Z0-9_]
IdentifierPart == IdentifierStart \cup Digits

\* code has the bytes of literal from byte p on.
MatchesAt(code, p, literal) ==
    /\ p + Len(literal) <= Len(code)
    /\ \A k \in DOMAIN literal : code[p + k] = literal[k]

\* The first byte from p on that is not in class, the end of code if none:
\* where class* stops.
RECURSIVE AfterAll(_, _, _)
AfterAll(code, p, class) ==
    IF p < Len(code) /\ code[p + 1] \in class THEN AfterAll(code, p + 1, class) ELSE p

\* The quoted alternative of group 1 from byte p: the byte after the closing quote, -1 if no match.
QuotedEnd(code, p) ==
    LET stop == AfterAll(code, p + 1, {code[k] : k \in DOMAIN code} \ {"\""})
    IN  IF p < Len(code) /\ code[p + 1] = "\"" /\ stop > p + 1 /\ stop < Len(code)
        THEN stop + 1 ELSE -1

\* The identifier alternative of group 1 from byte p: the byte after it, -1 if no match.
IdentifierEnd(code, p) ==
    IF p < Len(code) /\ code[p + 1] \in IdentifierStart
    THEN AfterAll(code, p + 1, IdentifierPart) ELSE -1

ScalaVersionName == <<"s", "c", "a", "l", "a", "V", "e", "r", "s", "i", "o", "n">>

\* The span of group 1 of a match of the pattern that starts at byte p.
CaptureAt(code, p) ==
    IF ~MatchesAt(code, p, ScalaVersionName) THEN None
    ELSE LET assign == AfterAll(code, p + Len(ScalaVersionName), Whitespace)
         IN  IF ~MatchesAt(code, assign, <<":", "=">>) THEN None
             ELSE LET start == AfterAll(code, assign + 2, Whitespace)
                  IN  IF QuotedEnd(code, start) >= 0
                      THEN Some(Span(start, QuotedEnd(code, start)))
                      ELSE IF IdentifierEnd(code, start) >= 0
                      THEN Some(Span(start, IdentifierEnd(code, start)))
                      ELSE None

\* re.captures(code): group 1 of the leftmost match from byte p on.
RECURSIVE Captures(_, _)
Captures(code, p) ==
    IF p >= Len(code) THEN None
    ELSE IF CaptureAt(code, p) # None THEN CaptureAt(code, p)
    ELSE Captures(code, p + 1)

\* find_scala_version
find_scala_version(code, vals) ==
    LET position == Captures(code, 0)
        version_or_identifier == Slice(code, position[1].start, position[1].end)
    IN  IF position = None THEN None
        ELSE IF Head(version_or_identifier) = "\""
                   /\ version_or_identifier[Len(version_or_identifier)] = "\""
        THEN Some(WithLocation(VersionNew(TrimQuotes(version_or_identifier)),
                               Location(SourcePath, position[1])))
        ELSE IF version_or_identifier \in DOMAIN vals
        THEN Some(WithLocation(VersionNew(vals[version_or_identifier].value),
                               vals[version_or_identifier].location))
        ELSE None

ScalaGroup == <<"o", "r", "g", ".", "s", "c", "a", "l", "a", "-", "l", "a", "n", "g">>
Scala3Library ==
    <<"s", "c", "a", "l", "a", "3", "-", "l", "i", "b", "r", "a", "r", "y", "_", "3">>
ScalaLibrary == <<"s", "c", "a", "l", "a", "-", "l", "i", "b", "r", "a", "r", "y">>

\* The artifact chosen on the first character of what the version displays.
ArtifactNameByDisplay(version) ==
    IF (IF IsSemVer(version) THEN DisplayVersion(version) ELSE version.s)[1] = "3"
    THEN Scala3Library ELSE ScalaLibrary

\* scala_version.value.major() == Some(3)
ArtifactName(version) ==
    IF OptMajor(version) = 3 THEN Scala3Library ELSE ScalaLibrary

\* get_scala_version_from_build_sbt
get_scala_version_from_build_sbt(tree) ==
    LET vals == parse_vals(tree, 1, <<>>)
        found == find_scala_version(SourceCode(tree), vals)
    IN  IF found = None THEN None
        ELSE Some(Dependency(ScalaGroup, ArtifactName(found[1].value), found[1]))

\* The statements a build.sbt is written from: definitions of versions, and
\* scalaVersion given a literal of Scala 3, of Scala 2 and one that is no
\* SemVer, a defined and an undefined name, and a dotted reference.
Assign == OperatorNode(<<":", "=">>)

ScalaVersionOf(operand) ==
    Statement(None, <<IdentifierNode(ScalaVersionName), operand>>, <<Assign>>)

ScalaStatements ==
    { Statement(Some(<<"s">>), <<StringNode(<<"3", ".", "4", ".", "2">>)>>, <<>>),
      Statement(Some(<<"s">>), <<StringNode(<<"2", ".", "1", "3", ".", "6">>)>>, <<>>),
      Scoped(Statement(Some(<<"v">>), <<StringNode(<<"3", ".", "3", ".", "1">>)>>, <<>>),
             <<<<"V">>>>),
      ScalaVersionOf(StringNode(<<"3", ".", "4", ".", "2">>)),
      ScalaVersionOf(StringNode(<<"2", ".", "1", "3", ".", "6">>)),
      ScalaVersionOf(StringNode(<<"3", ".", "x">>)),
      ScalaVersionOf(IdentifierNode(<<"s">>)),
      ScalaVersionOf(IdentifierNode(<<"u">>)),
      ScalaVersionOf(FieldNode(<<"V">>, <<"v">>)) }

\* One more statement in build.sbt, each written once.
PushScalaStatement ==
    /\ phase = "code"
    /\ Len(code_tree) < MaxStatements
    /\ \E st \in ScalaStatements :
          /\ \A i \in DOMAIN code_tree : code_tree[i] # st
          /\ code_tree' = Append(code_tree, st)
    /\ UNCHANGED <<val_defs, parsed_dependencies, scala_version, phase>>

\* get_scala_version_from_build_sbt on the code of build.sbt
GetScalaVersion ==
    /\ phase = "code"
    /\ phase' = "done"
    /\ scala_version' = get_scala_version_from_build_sbt(code_tree)
    /\ UNCHANGED <<code_tree, val_defs, parsed_dependencies>>

-----------------------------------------------------------------------------
(* The files of a project (src/dependency_resolver/mod.rs).  The disk is   *)
(* the set of the entries that exist under the project root; an entry is a *)
(* file or a directory, and has the directories from the root to it, its   *)
(* name, and what Path::extension gives for the name.  A file has the      *)
(* dependencies its code declares, and build.sbt the record of its Scala   *)
(* version if it assigns one.                                              *)

DirEntry(parent, name, extension) ==
    [parent |-> parent, name |-> name, extension |-> extension, is_file |-> FALSE,
     dependencies |-> <<>>, scala_version |-> None]

FileEntry(parent, name, extension) ==
    [parent |-> parent, name |-> name, extension |-> extension, is_file |-> TRUE,
     dependencies |-> <<[declared_in |-> parent \o <<name>>]>>, scala_version |-> None]

\* path.join: the directories and the name of an entry.
PathOf(entry) == entry.parent \o <<entry.name>>

BuildSbt == FileEntry(<<>>, "build.sbt", Some("sbt"))
BuildSbtWithScalaVersion ==
    [BuildSbt EXCEPT !.scala_version = Some([declared_in |-> <<"scalaVersion">>])]
RootScala == FileEntry(<<>>, "Root.scala", Some("scala"))
ProjectFolder == DirEntry(<<>>, "project", None)
PluginsSbt == FileEntry(<<"project">>, "plugins.sbt", Some("sbt"))
DependenciesScala == FileEntry(<<"project">>, "Dependencies.scala", Some("scala"))
BuildProperties == FileEntry(<<"project">>, "build.properties", Some("properties"))
ScalaNamedFolder == DirEntry(<<"project">>, "old.scala", Some("scala"))
SubFolder == DirEntry(<<"project">>, "sub", None)
VersionsScala == FileEntry(<<"project">>, "Versions.scala", Some("scala"))
NestedScala == FileEntry(<<"project", "sub">>, "Nested.scala", Some("scala"))

ProjectEntries ==
    {BuildSbt, BuildSbtWithScalaVersion, RootScala, ProjectFolder, PluginsSbt,
     DependenciesScala, VersionsScala, BuildProperties, ScalaNamedFolder, SubFolder,
     NestedScala}

\* path.exists()
Exists(tree, path) == \E e \in tree : PathOf(e) = path

\* A disk: one entry at most at a path, and every entry in a directory that
\* exists.
IsDisk(tree) ==
    /\ \A e, f \in tree : PathOf(e) = PathOf(f) => e = f
    /\ \A e \in tree :
          e.parent # <<>> =>
              \E d \in tree : ~d.is_file /\ PathOf(d) = e.parent

\* fs::read_dir(dir): the entries of dir itself.
read_dir(tree, dir) == {e \in tree : e.parent = dir}

\* collect_dependencies_from_file
collect_dependencies_from_file(entry) ==
    [file_path |-> PathOf(entry), dependencies |-> entry.dependencies]

\* The loop of collect_dependencies_from_dir that goes down the directories
\* it meets.
RECURSIVE CollectFromDirAndBelow(_, _, _)
CollectFromDirAndBelow(tree, paths, extension_filter) ==
    IF paths = <<>> THEN <<>>
    ELSE (IF paths[1].is_file
          THEN IF extension_filter # None /\ paths[1].extension # extension_filter
               THEN <<>>
               ELSE <<collect_dependencies_from_file(paths[1])>>
          ELSE LET below == read_dir(tree, PathOf(paths[1]))
                   order == CHOOSE o \in IterationOrders(below) : TRUE
               IN  CollectFromDirAndBelow(tree, order, extension_filter))
         \o CollectFromDirAndBelow(tree, Tail(paths), extension_filter)

\* collect_dependencies_from_dir over paths, the entries read_dir gave in
\* the order it gave them: the files with the extension, nothing for a
\* directory.
RECURSIVE collect_dependencies_from_dir(_, _, _)
collect_dependencies_from_dir(tree, paths, extension_filter) ==
    IF paths = <<>> THEN <<>>
    ELSE (IF paths[1].is_file
          THEN IF extension_filter # None /\ paths[1].extension # extension_filter
               THEN <<>>
               ELSE <<collect_dependencies_from_file(paths[1])>>
          ELSE <<>>)
         \o collect_dependencies_from_dir(tree, Tail(paths), extension_filter)

\* The entry at path.
EntryAt(tree, path) == CHOOSE e \in tree : PathOf(e) = path

\* collect_sbt_dependencies before the map is made of the dependencies;
\* paths is what read_dir gives for project/.
collect_sbt_dependencies(tree, paths) ==
    (IF Exists(tree, <<"build.sbt">>)
     THEN <<collect_dependencies_from_file(EntryAt(tree, <<"build.sbt">>))>>
          \o (IF EntryAt(tree, <<"build.sbt">>).scala_version # None
              THEN <<[file_path |-> <<"build.sbt">>,
                      dependencies |-> <<EntryAt(tree, <<"build.sbt">>).scala_version[1]>>]>>
              ELSE <<>>)
     ELSE <<>>)
    \o (IF Exists(tree, <<"project", "plugins.sbt">>)
        THEN <<collect_dependencies_from_file(EntryAt(tree, <<"project", "plugins.sbt">>))>>
        ELSE <<>>)
    \o (IF Exists(tree, <<"project">>)
        THEN collect_dependencies_from_dir(tree, paths, Some("scala"))
        ELSE <<>>)

\* A project root on the disk, before the dependencies are collected.
InitCollect ==
    /\ project_tree \in {tree \in SUBSET ProjectEntries : IsDisk(tree)}
    /\ collected = None
    /\ phase = "disk"

\* collect_sbt_dependencies on the project root: Ok with the dependencies
\* of the files, read_dir giving the entries of project/ in an order of its
\* own.
CollectSbtDependencies ==
    /\ phase = "disk"
    /\ phase' = "done"
    /\ \E paths \in IterationOrders(read_dir(project_tree, <<"project">>)) :
          collected' = Some(collect_sbt_dependencies(project_tree, paths))
    /\ UNCHANGED project_tree

-----------------------------------------------------------------------------
(* The parts of the state a specification does not use stay idle.          *)

IdleVersion == va = Idle /\ vb = Idle /\ vc = Idle /\ ordering = Idle
IdleOptions == current = Idle /\ available = Idle /\ tiers = Idle /\ options = Idle
IdleEdits == original = Idle /\ edits = Idle /\ result = Idle
IdleMap == map = Idle /\ merged = Idle
IdleParse == version_text = Idle /\ parsed = Idle /\ displayed = Idle /\ reparsed = Idle
IdleParser ==
    code_tree = Idle /\ val_defs = Idle /\ parsed_dependencies = Idle /\ scala_version = Idle
IdleCollect == project_tree = Idle /\ collected = Idle
IdleApp ==
    /\ files = Idle
    /\ entry_map = Idle
    /\ selected_index = Idle
    /\ show_group = Idle
    /\ decided_to_update = Idle
    /\ message = Idle

\* Version's and PreRelease's cmp on parsed versions.
InitSpecVersion == InitVersion /\ IdleOptions /\ IdleEdits /\ IdleMap /\ IdleApp /\ IdleParse /\ IdleParser /\ IdleCollect
NextSpecVersion == Compare /\ UNCHANGED <<optionVars, editVars, mapVars, appVars, message, parseVars, parserVars, collectVars>>
SpecVersion == InitSpecVersion /\ [][NextSpecVersion]_vars

\* UpdateOptions::new on a current version and a list of available versions.
InitSpecOptions == InitOptions /\ IdleVersion /\ IdleEdits /\ IdleMap /\ IdleApp /\ IdleParse /\ IdleParser /\ IdleCollect
NextSpecOptions ==
    \/ PushAvailable /\ UNCHANGED <<versionVars, editVars, mapVars, appVars, message, parseVars, parserVars, collectVars>>
    \/ ComputeOptions /\ UNCHANGED <<versionVars, editVars, mapVars, appVars, message, parseVars, parserVars, collectVars>>
SpecOptions == InitSpecOptions /\ [][NextSpecOptions]_vars

\* DependencyMap::add_dependency on an empty map, call after call.
InitSpecMerge == InitMerge /\ IdleVersion /\ IdleOptions /\ IdleEdits /\ IdleApp /\ IdleParse /\ IdleParser /\ IdleCollect
NextSpecMerge == AddDependency /\ UNCHANGED <<versionVars, optionVars, editVars, appVars, message, parseVars, parserVars, collectVars>>
SpecMerge == InitSpecMerge /\ [][NextSpecMerge]_vars

\* Edit::apply_edits on a text and a list of edits.
InitSpecEdits == InitEdits /\ IdleVersion /\ IdleOptions /\ IdleMap /\ IdleApp /\ IdleParse /\ IdleParser /\ IdleCollect
NextSpecEdits ==
    \/ PushEdit /\ UNCHANGED <<versionVars, optionVars, mapVars, appVars, message, parseVars, parserVars, collectVars>>
    \/ ApplyEdits /\ UNCHANGED <<versionVars, optionVars, mapVars, appVars, message, parseVars, parserVars, collectVars>>
SpecEdits == InitSpecEdits /\ [][NextSpecEdits]_vars

\* Version::new, Display and Version::new again on a version text.
InitSpecParse ==
    InitParse /\ IdleVersion /\ IdleOptions /\ IdleEdits /\ IdleMap /\ IdleApp /\ IdleParser /\ IdleCollect
NextSpecParse ==
    \/ ParseText /\ UNCHANGED <<versionVars, optionVars, editVars, mapVars, appVars, message, parserVars, collectVars>>
    \/ DisplayParsed /\ UNCHANGED <<versionVars, optionVars, editVars, mapVars, appVars, message, parserVars, collectVars>>
    \/ ParseDisplayed /\ UNCHANGED <<versionVars, optionVars, editVars, mapVars, appVars, message, parserVars, collectVars>>
SpecParse == InitSpecParse /\ [][NextSpecParse]_vars

\* DependencyParser on the code of a file: the symbol table, then the
\* dependencies.
InitSpecParser ==
    InitParser /\ IdleVersion /\ IdleOptions /\ IdleEdits /\ IdleMap /\ IdleApp /\ IdleParse /\ IdleCollect
NextSpecParser ==
    \/ PushStatement /\ UNCHANGED <<versionVars, optionVars, editVars, mapVars, appVars, message, parseVars, collectVars>>
    \/ ParseValDefs /\ UNCHANGED <<versionVars, optionVars, editVars, mapVars, appVars, message, parseVars, collectVars>>
    \/ ParseDependencies /\ UNCHANGED <<versionVars, optionVars, editVars, mapVars, appVars, message, parseVars, collectVars>>
SpecParser == InitSpecParser /\ [][NextSpecParser]_vars

\* DependencyParser::parse_val_defs on the code of a file of definitions.
NextSpecVals ==
    \/ PushDefinition /\ UNCHANGED <<versionVars, optionVars, editVars, mapVars, appVars, message, parseVars, collectVars>>
    \/ ParseValDefs /\ UNCHANGED <<versionVars, optionVars, editVars, mapVars, appVars, message, parseVars, collectVars>>
SpecVals == InitSpecParser /\ [][NextSpecVals]_vars

\* get_scala_version_from_build_sbt on the code of a build.sbt.
NextSpecScala ==
    \/ PushScalaStatement /\ UNCHANGED <<versionVars, optionVars, editVars, mapVars, appVars, message, parseVars, collectVars>>
    \/ GetScalaVersion /\ UNCHANGED <<versionVars, optionVars, editVars, mapVars, appVars, message, parseVars, collectVars>>
SpecScala == InitSpecParser /\ [][NextSpecScala]_vars

\* collect_sbt_dependencies on a project root.
InitSpecCollect ==
    InitCollect /\ IdleVersion /\ IdleOptions /\ IdleEdits /\ IdleMap /\ IdleApp /\ IdleParse /\ IdleParser
NextSpecCollect ==
    CollectSbtDependencies /\ UNCHANGED <<versionVars, optionVars, editVars, mapVars, appVars, message, parseVars, parserVars>>
SpecCollect == InitSpecCollect /\ [][NextSpecCollect]_vars

\* The application from init to the return of main.
InitSpec == InitApp /\ IdleVersion /\ IdleOptions /\ IdleEdits /\ IdleMap /\ IdleParse /\ IdleParser /\ IdleCollect
NextSpec ==
    \/ SearchCompleted /\ UNCHANGED <<versionVars, optionVars, editVars, mapVars, parseVars, parserVars, collectVars>>
    \/ VersionsRetrieved /\ UNCHANGED <<versionVars, optionVars, editVars, mapVars, parseVars, parserVars, collectVars>>
    \/ KeyQuit /\ UNCHANGED <<versionVars, optionVars, editVars, mapVars, message, parseVars, parserVars, collectVars>>
    \/ KeyDown /\ UNCHANGED <<versionVars, optionVars, editVars, mapVars, message, parseVars, parserVars, collectVars>>
    \/ KeyUp /\ UNCHANGED <<versionVars, optionVars, editVars, mapVars, message, parseVars, parserVars, collectVars>>
    \/ KeyNextVersion /\ UNCHANGED <<versionVars, optionVars, editVars, mapVars, message, parseVars, parserVars, collectVars>>
    \/ KeyPrevVersion /\ UNCHANGED <<versionVars, optionVars, editVars, mapVars, message, parseVars, parserVars, collectVars>>
    \/ KeySpace /\ UNCHANGED <<versionVars, optionVars, editVars, mapVars, message, parseVars, parserVars, collectVars>>
    \/ KeyAll /\ UNCHANGED <<versionVars, optionVars, editVars, mapVars, message, parseVars, parserVars, collectVars>>
    \/ KeyGroup /\ UNCHANGED <<versionVars, optionVars, editVars, mapVars, message, parseVars, parserVars, collectVars>>
    \/ KeyOpen /\ UNCHANGED <<versionVars, optionVars, editVars, mapVars, message, parseVars, parserVars, collectVars>>
    \/ KeyEnter /\ UNCHANGED <<versionVars, optionVars, editVars, mapVars, message, parseVars, parserVars, collectVars>>
    \/ WriteUpdates /\ UNCHANGED <<versionVars, optionVars, editVars, mapVars, message, parseVars, parserVars, collectVars>>
    \/ Finish /\ UNCHANGED <<versionVars, optionVars, editVars, mapVars, message, parseVars, parserVars, collectVars>>
Spec == InitSpec /\ [][NextSpec]_vars

-----------------------------------------------------------------------------
(* The version ordering.                                                   *)

\* s is before t in the lexicographic order of their bytes.
LexLess(s, t) ==
    \E k \in 0..Len(s) :
        /\ k <= Len(t)
        /\ \A i \in 1..k : s[i] = t[i]
        /\ \/ k = Len(s) /\ k < Len(t)
           \/ k < Len(s) /\ k < Len(t) /\ Code(s[k + 1]) < Code(t[k + 1])

LexOrder(s, t) == IF LexLess(s, t) THEN "Less" ELSE IF LexLess(t, s) THEN "Greater" ELSE "Equal"

NumOrder(m, n) == IF m < n THEN "Less" ELSE IF n < m THEN "Greater" ELSE "Equal"

\* (major, minor, patch) of v is before that of w.
TupleLess(v, w) ==
    \/ v.major < w.major
    \/ v.major = w.major /\ v.minor < w.minor
    \/ v.major = w.major /\ v.minor = w.minor /\ v.patch < w.patch

\* C6: Version's cmp is a strict total order on parsed versions: for a, b
\* exactly one of a < b, a = b, b < a holds, cmp(a, b) is the reverse of
\* cmp(b, a), it is transitive over a, b, c, and it answers Equal exactly when
\* a and b are structurally equal.
C6_VersionTotalOrder ==
    phase = "done" =>
        /\ ordering.ab \in {"Less", "Equal", "Greater"}
        /\ ordering.ba = Reverse(ordering.ab)
        /\ Cardinality({i \in 1..3 : \/ i = 1 /\ ordering.ab = "Less"
                                     \/ i = 2 /\ va = vb
                                     \/ i = 3 /\ ordering.ba = "Less"}) = 1
        /\ (ordering.ab = "Equal") <=> (va = vb)
        /\ (ordering.ab = "Less" /\ ordering.bc = "Less") => ordering.ac = "Less"
        /\ (ordering.ab # "Greater" /\ ordering.bc # "Greater") => ordering.ac # "Greater"

\* a pre-release, its release and a non-semantic version, compared in a chain
C6_Witness ==
    /\ phase = "done"
    /\ HasPre(va) /\ IsSemVer(vb) /\ ~HasPre(vb) /\ ~IsSemVer(vc)
    /\ ordering.ab = "Less" /\ ordering.bc = "Less" /\ ordering.ac = "Less"

\* C7: a SemVer version is Less than any Other version whatever its numbers
\* and whatever the Other's text; two Other versions compare by the
\* lexicographic order of their raw strings.
C7_SemVerBelowOther ==
    phase = "done" =>
        /\ (IsSemVer(va) /\ ~IsSemVer(vb)) =>
               (ordering.ab = "Less" /\ ordering.ba = "Greater")
        /\ (~IsSemVer(va) /\ ~IsSemVer(vb)) => ordering.ab = LexOrder(va.s, vb.s)

\* 10.0.0 against the text "9", and two different Other texts
C7_Witness ==
    /\ phase = "done"
    /\ IsSemVer(va) /\ va.major = 10 /\ vb = Other(<<"9">>) /\ ordering.ab = "Less"
    /\ ~IsSemVer(vc) /\ ordering.bc = "Less"

\* C8: two SemVer versions compare by (major, minor, patch); when those are
\* equal the one without a pre-release is Greater than one with a pre-release,
\* and two with pre-releases compare as their pre-releases do.
C8_SemVerOrder ==
    (phase = "done" /\ IsSemVer(va) /\ IsSemVer(vb)) =>
        /\ TupleLess(va, vb) => ordering.ab = "Less"
        /\ TupleLess(vb, va) => ordering.ab = "Greater"
        /\ (~TupleLess(va, vb) /\ ~TupleLess(vb, va)) =>
               /\ (~HasPre(va) /\ HasPre(vb)) => ordering.ab = "Greater"
               /\ (HasPre(va) /\ ~HasPre(vb)) => ordering.ab = "Less"
               /\ (HasPre(va) /\ HasPre(vb)) => ordering.ab = ordering.pre
               /\ (~HasPre(va) /\ ~HasPre(vb)) => ordering.ab = "Equal"

\* 1.0.0 against 1.0.0-RC2, and versions that differ in the patch alone
C8_Witness ==
    /\ phase = "done"
    /\ IsSemVer(va) /\ IsSemVer(vb) /\ IsSemVer(vc)
    /\ ~TupleLess(va, vb) /\ ~TupleLess(vb, va)
    /\ ~HasPre(va) /\ HasPre(vb) /\ ordering.ab = "Greater"
    /\ vc.major = vb.major /\ vc.minor = vb.minor /\ vc.patch > vb.patch
    /\ ordering.bc = "Less"

\* C9: PreRelease's cmp puts every RC above every M and every M above every
\* Other; two RC compare by their number, two M by their number, two Other
\* by the lexicographic order of their strings.
C9_PreReleaseOrder ==
    (phase = "done" /\ ordering.pre # Idle) =>
        LET p == va.pre_release
            q == vb.pre_release
        IN  /\ (p.kind = "RC" /\ q.kind \in {"M", "Other"}) => ordering.pre = "Greater"
            /\ (p.kind = "M" /\ q.kind = "Other") => ordering.pre = "Greater"
            /\ (q.kind = "RC" /\ p.kind \in {"M", "Other"}) => ordering.pre = "Less"
            /\ (q.kind = "M" /\ p.kind = "Other") => ordering.pre = "Less"
            /\ (p.kind = "RC" /\ q.kind = "RC") => ordering.pre = NumOrder(p.n, q.n)
            /\ (p.kind = "M" /\ q.kind = "M") => ordering.pre = NumOrder(p.n, q.n)
            /\ (p.kind = "Other" /\ q.kind = "Other") => ordering.pre = LexOrder(p.s, q.s)

\* RC10 against RC2 (by number, not by text), with an M in the third version
C9_Witness ==
    /\ phase = "done"
    /\ va.pre_release = RC(10) /\ vb.pre_release = RC(2) /\ ordering.pre = "Greater"
    /\ HasPre(vc) /\ vc.pre_release.kind = "M"

-----------------------------------------------------------------------------
(* The tiers of the update options.                                        *)

\* The versions of the available list.
AvailableSet == {available[i] : i \in DOMAIN available}

\* The greatest version of S under the version ordering, None when S is empty.
Greatest(S) ==
    IF S = {} THEN None ELSE Some(CHOOSE v \in S : \A w \in S : VersionCmp(w, v) # "Greater")

\* What the current version is compared as: itself, or 0.0.0 when it is not SemVer.
Baseline == IF IsSemVer(current) THEN current ELSE ZeroVersion

\* The available versions that qualify for each tier.
MajorQualifying ==
    {v \in AvailableSet : IsSemVer(v) /\ ~HasPre(v) /\ v.major > Baseline.major}
MinorQualifying ==
    {v \in AvailableSet \ MajorQualifying :
        IsSemVer(v) /\ ~HasPre(v) /\ VersionCmp(v, Baseline) = "Greater"
        /\ v.minor > Baseline.minor}
PatchQualifying ==
    {v \in AvailableSet \ (MajorQualifying \cup MinorQualifying) :
        IsSemVer(v) /\ ~HasPre(v) /\ VersionCmp(v, Baseline) = "Greater"
        /\ v.patch > Baseline.patch}
PreQualifying ==
    {v \in AvailableSet : HasPre(v) /\ VersionCmp(v, Baseline) = "Greater"}

\* The options returned, a None result read as four empty tiers.
ReturnedOptions == IF options = None THEN DefaultOptions ELSE options[1]

\* C10: for a SemVer current version c, UpdateOptions::new returns as major
\* the greatest available SemVer without pre-release whose major is above
\* c's; as minor the greatest without pre-release that is above c, does not
\* qualify for major and has its minor above c's; as patch the greatest
\* without pre-release that is above c, qualifies for neither and has its
\* patch above c's; the pre-release tier holds, before suppression, the
\* greatest available SemVer with a pre-release above c; a tier nothing
\* qualifies for is empty.
C10_Tiering ==
    (phase = "done" /\ IsSemVer(current)) =>
        /\ ReturnedOptions.major = Greatest(MajorQualifying)
        /\ ReturnedOptions.minor = Greatest(MinorQualifying)
        /\ ReturnedOptions.patch = Greatest(PatchQualifying)
        /\ tiers.major = ReturnedOptions.major
        /\ tiers.minor = ReturnedOptions.minor
        /\ tiers.patch = ReturnedOptions.patch
        /\ tiers.pre_release = Greatest(PreQualifying)
        /\ ReturnedOptions.pre_release \in {None, tiers.pre_release}

\* current 1.2.3 with 1.2.1, 1.2.3, 1.2.4, 2.0.0 available: major 2.0.0, no
\* minor, patch 1.2.4, no pre-release
C10_Witness ==
    /\ phase = "done"
    /\ current = SemVer(1, 2, 3, NoPre)
    /\ available = <<SemVer(1, 2, 1, NoPre), SemVer(1, 2, 3, NoPre),
                     SemVer(1, 2, 4, NoPre), SemVer(2, 0, 0, NoPre)>>
    /\ options = Some([major |-> Some(SemVer(2, 0, 0, NoPre)), minor |-> None,
                       patch |-> Some(SemVer(1, 2, 4, NoPre)), pre_release |-> None])

-----------------------------------------------------------------------------
(* What apply_edits returns.                                               *)

\* The permutations of 1..n.
Perms(n) == {p \in [1..n -> 1..n] : \A i, j \in 1..n : i # j => p[i] # p[j]}

Permuted(es, p) == [i \in 1..Len(es) |-> es[p[i]]]

\* No two edits share a byte: one ends at or before the start of the other.
NonOverlapping(es) ==
    \A i, j \in DOMAIN es :
        i # j => \/ es[i].span.end <= es[j].span.start
                 \/ es[j].span.end <= es[i].span.start

DistinctStarts(es) ==
    \A i, j \in DOMAIN es : i # j => es[i].span.start # es[j].span.start

\* Two spans share a byte, or one is empty and lies inside the other.
Overlapping(a, b) == a.start < b.end /\ b.start < a.end

\* The replacement texts of the edits of es that start at offset p, in the order of es.
RECURSIVE TextsAt(_, _)
TextsAt(es, p) ==
    IF es = <<>> THEN <<>>
    ELSE (IF es[1].span.start = p THEN es[1].text ELSE <<>>) \o TextsAt(Tail(es), p)

\* Offset p lies in the span of an edit of es.
Covered(es, p) == \E i \in DOMAIN es : es[i].span.start <= p /\ p < es[i].span.end

\* The text from offset p on with every edit's span replaced by its text and
\* every byte outside the spans kept.
RECURSIVE ReplacedFrom(_, _, _)
ReplacedFrom(text, es, p) ==
    IF p > Len(text) THEN <<>>
    ELSE TextsAt(es, p)
         \o (IF p < Len(text) /\ ~Covered(es, p) THEN <<text[p + 1]>> ELSE <<>>)
         \o ReplacedFrom(text, es, p + 1)

Replaced(text, es) == ReplacedFrom(text, es, 0)

\* C1 as stated: on pairwise non-overlapping edits (spans within the text,
\* start <= end) apply_edits returns the text with each edit's range replaced
\* by its text and the rest copied, whatever the order the edits come in, and
\* the text itself for no edits.
C1_AsStated ==
    (phase = "done" /\ NonOverlapping(edits)) =>
        /\ \E p \in Perms(Len(edits)) : result = Replaced(original, Permuted(edits, p))
        /\ \A p \in Perms(Len(edits)) : apply_edits(Permuted(edits, p), original) = result
        /\ edits = <<>> => result = original

\* C1, amended: on pairwise non-overlapping edits (spans within the text,
\* start <= end) no two of which start at the same offset, apply_edits
\* returns the text with each edit's range replaced by its text and the rest
\* copied, whatever the order the edits come in, and the text itself for no
\* edits.
C1_NonOverlappingEdits ==
    (phase = "done" /\ NonOverlapping(edits) /\ DistinctStarts(edits)) =>
        /\ result = Replaced(original, edits)
        /\ \A p \in Perms(Len(edits)) : apply_edits(Permuted(edits, p), original) = result
        /\ edits = <<>> => result = original

\* the edits (2,3) -> "23" and (0,1) -> "1", in that order, on "xyz" give "1y23"
C1_Witness ==
    /\ phase = "done"
    /\ edits = <<Edit(Span(2, 3), <<"2", "3">>), Edit(Span(0, 1), <<"1">>)>>
    /\ result = <<"1", "y", "2", "3">>

\* C2: of two edits with overlapping spans only the one that starts earlier
\* is applied; the one that starts later is dropped without error and the
\* original text after the earlier edit's span, the later span's part of it
\* included, is in the output as it was.
C2_OverlapFirstWins ==
    (phase = "done" /\ Len(edits) = 2) =>
        \A i, j \in 1..2 :
            (edits[i].span.start < edits[j].span.start
             /\ Overlapping(edits[i].span, edits[j].span)) =>
                /\ EditWalk(edits, original).kept = <<edits[i]>>
                /\ result = Slice(original, 0, edits[i].span.start) \o edits[i].text
                             \o Slice(original, edits[i].span.end, Len(original))

\* (1,3) -> "23" supplied before (0,2) -> "1" on "xyz": "1z"
C2_Witness ==
    /\ phase = "done"
    /\ edits = <<Edit(Span(1, 3), <<"2", "3">>), Edit(Span(0, 2), <<"1">>)>>
    /\ result = <<"1", "z">>

-----------------------------------------------------------------------------
(* More on the options UpdateOptions::new returns.                         *)

\* C11: the pre_release tier of the result holds the greatest pre-release
\* candidate exactly when that candidate is strictly greater than every
\* populated major, minor and patch option; when it is less than or equal to
\* one of them, or there is no pre-release candidate, the tier is empty.
C11_PreReleaseOnlyAboveStable ==
    phase = "done" =>
        LET pre == Greatest(PreQualifying)
            stable == StableOptions(ReturnedOptions)
        IN  ReturnedOptions.pre_release =
                IF pre # None /\ \A v \in stable : VersionCmp(pre[1], v) = "Greater"
                THEN pre ELSE None

\* current 1.2.3 with 1.2.4 and 1.2.4-RC1 available: the pre-release is below
\* the patch option and is cleared
C11_Witness ==
    /\ phase = "done"
    /\ current = SemVer(1, 2, 3, NoPre)
    /\ available = <<SemVer(1, 2, 4, NoPre), SemVer(1, 2, 4, RC(1))>>
    /\ tiers.pre_release = Some(SemVer(1, 2, 4, RC(1)))
    /\ options = Some([major |-> None, minor |-> None,
                       patch |-> Some(SemVer(1, 2, 4, NoPre)), pre_release |-> None])

\* current 1.2.3 with 3.0.0 and 3.0.1-M1 available: the pre-release is above
\* the major option and is kept
C11_KeptWitness ==
    /\ phase = "done"
    /\ current = SemVer(1, 2, 3, NoPre)
    /\ available = <<SemVer(3, 0, 0, NoPre), SemVer(3, 0, 1, M(1))>>
    /\ options = Some([major |-> Some(SemVer(3, 0, 0, NoPre)), minor |-> None,
                       patch |-> None, pre_release |-> Some(SemVer(3, 0, 1, M(1)))])

\* Every available version is less than or equal to the current one.
NothingNewer == \A v \in AvailableSet : VersionCmp(v, current) # "Greater"

\* C12 as stated: UpdateOptions::new returns None, and never options with
\* four empty tiers, whenever the available list is empty or holds only
\* versions less than or equal to the current version.
C12_AsStated ==
    phase = "done" =>
        /\ options # Some(DefaultOptions)
        /\ NothingNewer => options = None

\* C12 for a SemVer current version: UpdateOptions::new returns None whenever
\* the available list is empty or holds only versions less than or equal to
\* the current version, pre-releases of its own major.minor.patch included;
\* for any current version it never returns options with four empty tiers.
C12_NoneWhenNothingNewer ==
    phase = "done" =>
        /\ options # Some(DefaultOptions)
        /\ (IsSemVer(current) /\ NothingNewer) => options = None

\* current 1.2.3 with 1.2.1, 1.2.3 and 1.2.3-RC1 available: None
C12_Witness ==
    /\ phase = "done"
    /\ current = SemVer(1, 2, 3, NoPre)
    /\ available = <<SemVer(1, 2, 1, NoPre), SemVer(1, 2, 3, NoPre), SemVer(1, 2, 3, RC(1))>>
    /\ options = None

\* For a current version that is not SemVer, UpdateOptions::new returns what
\* get_options_semver returns for 0.0.0 and the same available list.
OtherCurrentAsZero ==
    (phase = "done" /\ ~IsSemVer(current)) =>
        options = get_options_semver(SemVer(0, 0, 0, NoPre), available)

\* update handles the message in this step.
HandlesVersions == message # None /\ message' = None

\* What add_versions leaves in the update_options of an entry for the
\* result r of UpdateOptions::new.
Attached(entry, r) == IF r # None THEN r ELSE entry.update_options

\* C13: when the versions arrive, an entry whose current version is not
\* SemVer gets exactly the options computed for current 0.0.0 and the same
\* available list, and the version every entry stores stays what it was.
C13_OtherCurrentUsesZeroBaseline ==
    [][HandlesVersions =>
        \A k \in DOMAIN entry_map :
            /\ entry_map'[k].version = entry_map[k].version
            /\ (k \in DOMAIN message[1] /\ ~IsSemVer(entry_map[k].version)) =>
                  entry_map'[k].update_options =
                      Attached(entry_map[k],
                               get_options_semver(SemVer(0, 0, 0, NoPre), message[1][k]))]_vars

\* An entry of version x has options attached and is still of version x.
C13_Witness ==
    /\ phase = "running"
    /\ \E k \in DOMAIN entry_map :
          /\ entry_map[k].version = Other(<<"x">>)
          /\ entry_map[k].update_options # None
          /\ entry_map[k].update_options[1].major = Some(SemVer(2, 0, 0, NoPre))

TierNames == {"major", "minor", "patch", "pre_release"}

\* What tier t of options o holds, as a set of at most one version.
Placed(o, t) ==
    CASE t = "major" -> {o.major[i] : i \in DOMAIN o.major}
      [] t = "minor" -> {o.minor[i] : i \in DOMAIN o.minor}
      [] t = "patch" -> {o.patch[i] : i \in DOMAIN o.patch}
      [] t = "pre_release" -> {o.pre_release[i] : i \in DOMAIN o.pre_release}

\* No version is in two tiers of o, a version that qualifies for major is in
\* no tier but major, and every version in a tier is an available SemVer
\* strictly above the baseline.
OneTierEach(o) ==
    /\ \A t, u \in TierNames : t # u => Placed(o, t) \cap Placed(o, u) = {}
    /\ \A t \in TierNames \ {"major"} : Placed(o, t) \cap MajorQualifying = {}
    /\ \A t \in TierNames : \A v \in Placed(o, t) :
          v \in AvailableSet /\ IsSemVer(v) /\ VersionCmp(v, Baseline) = "Greater"

\* C14: in the options UpdateOptions::new returns, and in those its loop
\* held before the pre-release was looked at again, a version occupies at most
\* one tier, a version that qualifies for major is in none of minor, patch
\* and pre_release, and every version in a tier is a SemVer strictly greater
\* than the current version (0.0.0 for a current version that is not SemVer).
C14_AtMostOneTier ==
    phase = "done" => OneTierEach(ReturnedOptions) /\ OneTierEach(tiers)

\* current 1.2.3 with 1.3.0 and 2.3.4 available: 2.3.4, whose minor and patch
\* are above the current ones too, is the major option only
C14_Witness ==
    /\ phase = "done"
    /\ current = SemVer(1, 2, 3, NoPre)
    /\ available = <<SemVer(1, 3, 0, NoPre), SemVer(2, 3, 4, NoPre)>>
    /\ options = Some([major |-> Some(SemVer(2, 3, 4, NoPre)),
                       minor |-> Some(SemVer(1, 3, 0, NoPre)),
                       patch |-> None, pre_release |-> None])

\* The available list holds a SemVer version strictly greater than the
\* current one.
SomethingNewer == \E v \in AvailableSet : IsSemVer(v) /\ VersionCmp(v, current) = "Greater"

\* C26: for a SemVer current version, whenever the available list holds a
\* SemVer version strictly greater than the current one, get_options_semver
\* returns Some with at least one populated tier.
C26_NewerIsNeverLost ==
    phase = "done" =>
        ((IsSemVer(current) /\ SomethingNewer)
            => (options # None /\ ~IsEmptyOptions(options[1])))

\* The same for a current version that is a release, not a pre-release.
C26_NewerThanReleaseIsNeverLost ==
    phase = "done" =>
        ((IsSemVer(current) /\ ~HasPre(current) /\ SomethingNewer)
            => (options # None /\ ~IsEmptyOptions(options[1])))

\* The newer versions that are lost: the release of the current pre-release,
\* and nothing else.
C26_OnlyOwnReleaseIsLost ==
    phase = "done" =>
        ((IsSemVer(current) /\ SomethingNewer /\ options = None) =>
               (/\ HasPre(current)
                /\ \A v \in AvailableSet :
                      (IsSemVer(v) /\ VersionCmp(v, current) = "Greater")
                          => v = SemVer(current.major, current.minor, current.patch, NoPre)))

-----------------------------------------------------------------------------
(* What a version text parses to.                                          *)

\* One or more decimal digits.
IsDigits(s) == s # <<>> /\ \A i \in DOMAIN s : s[i] \in Digits

\* s split at every sep.
RECURSIVE SplitAll(_, _)
SplitAll(s, sep) ==
    IF \A i \in DOMAIN s : s[i] # sep THEN <<s>>
    ELSE LET at == CHOOSE i \in DOMAIN s : s[i] = sep /\ \A j \in 1..(i - 1) : s[j] # sep
         IN  <<SubSeq(s, 1, at - 1)>> \o SplitAll(SubSeq(s, at + 1, Len(s)), sep)

HasSuffix(x) == \E i \in DOMAIN x : x[i] = "-"

\* x up to its first '-', and x after it.
CoreOf(x) == SplitAll(x, "-")[1]
SuffixOf(x) == SubSeq(x, Len(CoreOf(x)) + 2, Len(x))

\* RC<digits> or M<digits>
IsTieredSuffix(s) ==
    \/ Len(s) > 2 /\ SubSeq(s, 1, 2) = <<"R", "C">> /\ IsDigits(SubSeq(s, 3, Len(s)))
    \/ Len(s) > 1 /\ s[1] = "M" /\ IsDigits(SubSeq(s, 2, Len(s)))

\* n dot-separated components of digits, then nothing or -RC<n> or -M<n>.
WellFormed(x, n) ==
    /\ Len(SplitAll(CoreOf(x), ".")) = n
    /\ \A i \in 1..n : IsDigits(SplitAll(CoreOf(x), ".")[i])
    /\ HasSuffix(x) => IsTieredSuffix(SuffixOf(x))

\* C15: for every text major.minor.patch or major.minor of digits, with or
\* without a suffix -RC<n> or -M<n>, parsing what the parsed version displays
\* as gives the parsed version again; a two-component text that parses to a
\* SemVer has patch 0.
C15_ParseDisplayRoundTrip ==
    (phase = "done" /\ (WellFormed(version_text, 3) \/ WellFormed(version_text, 2))) =>
        /\ reparsed = parsed
        /\ (WellFormed(version_text, 2) /\ IsSemVer(parsed)) => parsed.patch = 0

\* 1.02.10-RC02 parses to 1.2.10-RC2, which displays as another text and
\* parses to the same version
C15_Witness ==
    /\ phase = "done"
    /\ version_text = <<"1", ".", "0", "2", ".", "1", "0", "-", "R", "C", "0", "2">>
    /\ parsed = SemVer(1, 2, 10, RC(2))
    /\ displayed = <<"1", ".", "2", ".", "1", "0", "-", "R", "C", "2">>
    /\ reparsed = parsed

\* 1.02 parses to 1.2.0
C15_TwoComponentWitness ==
    /\ phase = "done"
    /\ version_text = <<"1", ".", "0", "2">>
    /\ parsed = SemVer(1, 2, 0, NoPre)
    /\ reparsed = parsed

\* Parsing what any parsed version displays as gives that version again.
RoundTripAnyText == phase = "done" => reparsed = parsed

\* The pre-release the claim gives suffix s: RC(n) for RC and digits n, M(n)
\* for M and digits n, Other carrying s for anything else.
SuffixMeaning(s) ==
    IF IsTieredSuffix(s) /\ s[1] = "R" THEN RC(DigitsValue(SubSeq(s, 3, Len(s)), 1, 0))
    ELSE IF IsTieredSuffix(s) THEN M(DigitsValue(SubSeq(s, 2, Len(s)), 1, 0))
    ELSE PreOther(s)

\* The suffix starts with RC or M and what follows is not digits.
TierNameWithoutNumber(s) ==
    /\ ~IsTieredSuffix(s)
    /\ \/ Len(s) >= 2 /\ SubSeq(s, 1, 2) = <<"R", "C">>
       \/ Len(s) >= 1 /\ s[1] = "M"

\* C16: a version text with a pre-release suffix that parses to a SemVer has
\* the pre-release RC(n) only for a suffix RC followed by digits n, M(n) only
\* for M followed by digits n, and Other carrying the suffix unchanged for
\* every other suffix, RC or M followed by something else included.
C16_SuffixMapping ==
    (phase \in {"parsed", "displayed", "done"} /\ HasSuffix(version_text) /\ IsSemVer(parsed)) =>
        parsed.pre_release = SuffixMeaning(SuffixOf(version_text))

\* The same, apart from the suffixes that start with RC or M and go on with
\* something that is not digits.
SuffixMappingOfOtherSuffixes ==
    (phase \in {"parsed", "displayed", "done"} /\ HasSuffix(version_text) /\ IsSemVer(parsed)
        /\ ~TierNameWithoutNumber(SuffixOf(version_text))) =>
        parsed.pre_release = SuffixMeaning(SuffixOf(version_text))

\* x up to its first '-' is two or three dot-separated components of digits.
NumericForm(x) ==
    /\ Len(SplitAll(CoreOf(x), ".")) \in {2, 3}
    /\ \A i \in DOMAIN SplitAll(CoreOf(x), ".") : IsDigits(SplitAll(CoreOf(x), ".")[i])

\* Digits, or '+' and digits.
IsSignedDigits(s) == IsDigits(s) \/ (Len(s) > 1 /\ s[1] = "+" /\ IsDigits(Tail(s)))

\* The same form with a '+' allowed in front of the digits of a component.
SignedNumericForm(x) ==
    /\ Len(SplitAll(CoreOf(x), ".")) \in {2, 3}
    /\ \A i \in DOMAIN SplitAll(CoreOf(x), ".") : IsSignedDigits(SplitAll(CoreOf(x), ".")[i])

\* An Other version sorts above a SemVer, equals itself, and merges into an
\* entry of the dependency map like any version: being the greater one it
\* becomes the entry's version, and its location is kept with the other.
ComparesAndMerges(v) ==
    LET one == SemVer(1, 0, 0, NoPre)
        first == Location("build.sbt", Span(0, 7))
        second == Location("build.sbt", Span(8, 15))
        entry == VersionWithLocationsAdd(VersionWithLocationsNew(one, first), v, second)
    IN  /\ VersionCmp(v, v) = "Equal"
        /\ VersionCmp(v, one) = "Greater"
        /\ VersionCmp(one, v) = "Less"
        /\ entry = [version |-> v, locations |-> <<first, second>>]

\* C17 with a number read as digits only: for a text that is not two or three
\* dot-separated components of digits with an optional -suffix, Version::new
\* returns Other holding the whole text.
MalformedIsOtherDigitsOnly ==
    (phase \in {"parsed", "displayed", "done"} /\ ~NumericForm(version_text)) =>
        parsed = Other(version_text)

\* C17: Version::new returns a version for every text; for a text that is
\* not two or three dot-separated numeric components with an optional
\* -suffix (one component, four or more, a component that is not a number, a
\* number being digits with or without a '+' in front, as u32's parse reads
\* it) the version is Other holding the whole text unchanged, never a SemVer,
\* it displays as that text, and it compares and merges like any version.
C17_MalformedIsOther ==
    (phase \in {"parsed", "displayed", "done"} /\ ~SignedNumericForm(version_text)) =>
        /\ parsed = Other(version_text)
        /\ ComparesAndMerges(parsed)
        /\ phase = "done" => displayed = version_text /\ reparsed = parsed

\* 4.5.5.5 is Other("4.5.5.5")
C17_Witness ==
    /\ phase = "done"
    /\ version_text = <<"4", ".", "5", ".", "5", ".", "5">>
    /\ parsed = Other(<<"4", ".", "5", ".", "5", ".", "5">>)
    /\ displayed = version_text

-----------------------------------------------------------------------------
(* What the parser extracts from a file.  A coordinate declaration is a    *)
(* statement "group sep artifact sep version", alone, after "l +=" or as   *)
(* the value of a val; every declaration of a file has its own artifact.   *)

\* Where the group of a statement of that shape stands among its operands.
GroupAt(st) == IF st.operands[1].kind = "string" THEN 1 ELSE 2

HasDeclarationShape(st) ==
    /\ Len(st.operands) >= GroupAt(st) + 2
    /\ st.operands[GroupAt(st)].kind = "string"
    /\ st.operands[GroupAt(st) + 1].kind = "string"

Unquoted(t) == SubSeq(t, 2, Len(t) - 1)
GroupText(st) == Unquoted(st.operands[GroupAt(st)].text)
ArtifactText(st) == Unquoted(st.operands[GroupAt(st) + 1].text)
VersionOperand(st) == st.operands[GroupAt(st) + 2]

\* One or more '%' and nothing else.
PercentOnly(t) == Len(t) >= 1 /\ \A i \in DOMAIN t : t[i] = "%"

BothSeparatorsPercent(st) ==
    /\ PercentOnly(st.operators[GroupAt(st)].text)
    /\ PercentOnly(st.operators[GroupAt(st) + 1].text)

IsDeclaration(st) == HasDeclarationShape(st) /\ BothSeparatorsPercent(st)

IsReference(node) == node.kind \in {"identifier", "field_expression"}

\* The text after the last '.' of t, all of t when it has none.
RECURSIVE FinalSegment(_)
FinalSegment(t) ==
    IF \A i \in DOMAIN t : t[i] # "." THEN t
    ELSE FinalSegment(Tail(t))

\* The statements of the file that define the constant name.
DefinitionsOf(tree, name) ==
    {i \in DOMAIN tree : tree[i].val_name = Some(name)}

\* A declaration whose version refers to a constant the file does not define.
IsUnresolved(tree, i) ==
    /\ IsDeclaration(tree[i])
    /\ IsReference(VersionOperand(tree[i]))
    /\ DefinitionsOf(tree, FinalSegment(VersionOperand(tree[i]).text)) = {}

\* A declaration whose version refers to a constant the file defines.
IsResolved(tree, i) ==
    /\ IsDeclaration(tree[i])
    /\ IsReference(VersionOperand(tree[i]))
    /\ DefinitionsOf(tree, FinalSegment(VersionOperand(tree[i]).text)) # {}

\* The records of the output that statement i accounts for.
RecordsOf(tree, i) ==
    {k \in DOMAIN parsed_dependencies :
        /\ parsed_dependencies[k].group = GroupText(tree[i])
        /\ parsed_dependencies[k].artifact = ArtifactText(tree[i])}

\* C18: a declaration whose version is an identifier or a dotted reference
\* that the symbol table of the file does not define has no record in the
\* output, the extraction ends all the same, and every other declaration of
\* the file has its record.
C18_UnresolvedIsSkipped ==
    phase = "done" =>
        \A i \in DOMAIN code_tree :
            IsUnresolved(code_tree, i) =>
                /\ RecordsOf(code_tree, i) = {}
                /\ \A j \in DOMAIN code_tree :
                      IsDeclaration(code_tree[j]) /\ ~IsUnresolved(code_tree, j)
                          => Cardinality(RecordsOf(code_tree, j)) = 1

\* A file with a declaration on an undefined constant and one on a defined
\* constant, after the extraction.
C18_Witness ==
    /\ phase = "done"
    /\ \E i, j \in DOMAIN code_tree :
          /\ IsUnresolved(code_tree, i)
          /\ IsResolved(code_tree, j)
          /\ RecordsOf(code_tree, i) = {}
          /\ RecordsOf(code_tree, j) # {}

\* The definition of name that counts: the last one of the file.
LastDefinition(tree, name) ==
    CHOOSE d \in DefinitionsOf(tree, name) : \A e \in DefinitionsOf(tree, name) : e <= d

\* The text of a definition from its first byte after "val name = ".
ValuePart(st) == SubSeq(StatementText(st), Len(st.val_name[1]) + 8, Len(StatementText(st)))

\* Where the value of definition d stands in the code: the bytes after
\* "val name = " on the line that reads as the definition reads.
DefinitionSite(tree, d) ==
    LET code == SourceCode(tree)
        line == StatementText(tree[d])
        at == CHOOSE a \in 0..Len(code) :
                  /\ a + Len(line) <= Len(code)
                  /\ SubSeq(code, a + 1, a + Len(line)) = line
    IN  Span(at + Len(line) - Len(ValuePart(tree[d])), at + Len(line))

\* What a declaration on a constant is to yield as its version.
ConstantVersion(tree, i) ==
    LET d == LastDefinition(tree, FinalSegment(VersionOperand(tree[i]).text))
    IN  [value |-> VersionNew(Unquoted(ValuePart(tree[d]))),
         location |-> [file_path |-> SourcePath, span |-> DefinitionSite(tree, d)]]

C20_OnlyPercentSeparators ==
    phase = "done" =>
        /\ \A k \in DOMAIN parsed_dependencies :
              \E i \in DOMAIN code_tree :
                  /\ HasDeclarationShape(code_tree[i])
                  /\ k \in RecordsOf(code_tree, i)
                  /\ BothSeparatorsPercent(code_tree[i])
        /\ \A i \in DOMAIN code_tree :
              HasDeclarationShape(code_tree[i]) /\ ~BothSeparatorsPercent(code_tree[i])
                  => RecordsOf(code_tree, i) = {}

\* "h" + "o" + "0.0.1" next to a declaration with '%' separators: one record,
\* and it is not of group h.
C20_Witness ==
    /\ phase = "done"
    /\ \E i, j \in DOMAIN code_tree :
          /\ HasDeclarationShape(code_tree[i])
          /\ GroupText(code_tree[i]) = <<"h">>
          /\ code_tree[i].operators[1].text = <<"+">>
          /\ code_tree[i].operators[2].text = <<"+">>
          /\ RecordsOf(code_tree, i) = {}
          /\ IsDeclaration(code_tree[j])
          /\ RecordsOf(code_tree, j) # {}
    /\ Len(parsed_dependencies) = 1

-----------------------------------------------------------------------------
(* What the Scala version of a build.sbt yields.  The assignment that      *)
(* counts is the first statement "scalaVersion := operand" of the file.    *)

IsScalaAssignment(st) ==
    /\ st.val_name = None
    /\ Len(st.operands) = 2
    /\ st.operands[1] = IdentifierNode(ScalaVersionName)
    /\ st.operators[1].text = <<":", "=">>

ScalaAssignments(tree) == {i \in DOMAIN tree : IsScalaAssignment(tree[i])}

FirstScalaAssignment(tree) ==
    CHOOSE a \in ScalaAssignments(tree) : \A b \in ScalaAssignments(tree) : a <= b

\* The operand of the assignment that counts.
ScalaOperand(tree) == tree[FirstScalaAssignment(tree)].operands[2]

\* The assignment is given a literal; a name the file defines at its top; a
\* name the file does not define.
ScalaIsLiteral(tree) ==
    ScalaAssignments(tree) # {} /\ ScalaOperand(tree).kind = "string"

ScalaIsDefinedName(tree) ==
    /\ ScalaAssignments(tree) # {}
    /\ ScalaOperand(tree).kind = "identifier"
    /\ DefinitionsOf(tree, ScalaOperand(tree).text) # {}

ScalaIsUndefinedName(tree) ==
    /\ ScalaAssignments(tree) # {}
    /\ ScalaOperand(tree).kind = "identifier"
    /\ DefinitionsOf(tree, ScalaOperand(tree).text) = {}

\* The version of a literal: its text, where the literal stands.
LiteralScalaVersion(tree) ==
    [value |-> VersionNew(Unquoted(ScalaOperand(tree).text)),
     location |-> [file_path |-> SourcePath,
                   span |-> OperandSpan(tree, FirstScalaAssignment(tree), 2)]]

\* The version of a defined name: the value of its last definition, where
\* that value stands.
NamedScalaVersion(tree) ==
    LET d == LastDefinition(tree, ScalaOperand(tree).text)
    IN  [value |-> VersionNew(Unquoted(ValuePart(tree[d]))),
         location |-> [file_path |-> SourcePath, span |-> DefinitionSite(tree, d)]]

\* The artifact of a version: scala3-library_3 when it is SemVer of major
\* 3, scala-library when it is not.
ArtifactOfVersion(version) ==
    IF version.kind = "SemVer" /\ version.major = 3 THEN Scala3Library ELSE ScalaLibrary

\* C22: a file without a scalaVersion assignment, or with one on a name it
\* does not define, yields no record; one with a literal or a defined name
\* yields one record, whose version and location are the literal's or the
\* definition's; and a record is always of organization org.scala-lang, of
\* artifact scala3-library_3 when its version is SemVer of major 3 and of
\* scala-library when it is anything else, a version that is no SemVer
\* included.
C22_ScalaVersionRecord ==
    phase = "done" =>
        /\ ScalaAssignments(code_tree) = {} => scala_version = None
        /\ ScalaIsUndefinedName(code_tree) => scala_version = None
        /\ ScalaIsLiteral(code_tree) =>
              scala_version # None /\ scala_version[1].version = LiteralScalaVersion(code_tree)
        /\ ScalaIsDefinedName(code_tree) =>
              scala_version # None /\ scala_version[1].version = NamedScalaVersion(code_tree)
        /\ scala_version # None =>
              /\ scala_version[1].group = ScalaGroup
              /\ scala_version[1].artifact = ArtifactOfVersion(scala_version[1].version.value)

\* val s = "3.4.2" and scalaVersion := s: scala3-library_3 of 3.4.2, located
\* at bytes 8 .. 15, the value of the definition.
C22_Witness ==
    /\ phase = "done"
    /\ Len(code_tree) = 2
    /\ code_tree[1] = Statement(Some(<<"s">>), <<StringNode(<<"3", ".", "4", ".", "2">>)>>, <<>>)
    /\ ScalaIsDefinedName(code_tree)
    /\ scala_version =
          Some([group |-> ScalaGroup, artifact |-> Scala3Library,
                version |-> [value |-> SemVer(3, 4, 2, NoPre),
                             location |-> [file_path |-> SourcePath, span |-> Span(8, 15)]]])

\* scalaVersion := "3.x": the version is no SemVer, the artifact is
\* scala-library.
C22_WitnessNotSemVer ==
    /\ phase = "done"
    /\ ScalaIsLiteral(code_tree)
    /\ scala_version # None
    /\ scala_version[1].version.value.kind = "Other"
    /\ scala_version[1].artifact = ScalaLibrary

\* What the version operand of a coordinate declaration yields when it is
\* the operand of the assignment that counts.
AsCoordinateVersion(tree) ==
    VersionOf(tree, FirstScalaAssignment(tree), 2, parse_vals(tree, 1, <<>>))

\* C23: the operand of the scalaVersion assignment, be it a literal, a bare
\* identifier or a dotted reference, yields the value and the location that
\* the same operand yields as the version of a coordinate declaration, and
\* yields nothing when that yields nothing.
C23_ResolvedAsCoordinateVersion ==
    phase = "done" /\ ScalaAssignments(code_tree) # {} =>
        IF AsCoordinateVersion(code_tree) = None THEN scala_version = None
        ELSE /\ scala_version # None
             /\ scala_version[1].version = AsCoordinateVersion(code_tree)[1]

\* The same for a literal and a bare identifier alone.
C23_LiteralAndIdentifierAsCoordinateVersion ==
    phase = "done" /\ ScalaAssignments(code_tree) # {}
                   /\ ScalaOperand(code_tree).kind # "field_expression" =>
        IF AsCoordinateVersion(code_tree) = None THEN scala_version = None
        ELSE /\ scala_version # None
             /\ scala_version[1].version = AsCoordinateVersion(code_tree)[1]

-----------------------------------------------------------------------------
(* What files the dependencies of a project are collected from.            *)

\* The files with the .scala extension under project/, at any depth, and in
\* project/ itself.
ScalaFilesBelowProject(tree) ==
    {e \in tree : /\ e.is_file
                  /\ e.extension = Some("scala")
                  /\ Len(e.parent) >= 1
                  /\ e.parent[1] = "project"}

ScalaFilesInProject(tree) ==
    {e \in tree : e.is_file /\ e.extension = Some("scala") /\ e.parent = <<"project">>}

\* build.sbt at the root and project/plugins.sbt, where they exist.
SbtFiles(tree) ==
    {e \in tree : e.is_file /\ PathOf(e) \in {<<"build.sbt">>, <<"project", "plugins.sbt">>}}

\* The collection ended without an error, read exactly the files of
\* expected, and has the dependencies of each of them once.
CollectedExactly(expected) ==
    /\ collected # None
    /\ {collected[1][k].file_path : k \in DOMAIN collected[1]} = {PathOf(e) : e \in expected}
    /\ \A e \in expected :
          Cardinality({k \in DOMAIN collected[1] :
                          collected[1][k] = [file_path |-> PathOf(e),
                                             dependencies |-> e.dependencies]}) = 1

\* C24 as stated: the dependencies are collected from build.sbt, from
\* project/plugins.sbt and from every .scala file under project/ at any
\* depth, as far as they exist, and a file that does not exist is no error.
C24_CollectedFromProjectAtAnyDepth ==
    phase = "done" =>
        CollectedExactly(SbtFiles(project_tree) \cup ScalaFilesBelowProject(project_tree))

\* C24: the dependencies are collected from build.sbt, from
\* project/plugins.sbt and from every .scala file that is in project/
\* itself, as far as they exist; a .scala file in a directory below
\* project/ is not read, and a file that does not exist is no error.
C24_CollectedFromProjectItself ==
    phase = "done" =>
        CollectedExactly(SbtFiles(project_tree) \cup ScalaFilesInProject(project_tree))

\* No build.sbt, project/Dependencies.scala and project/sub/Nested.scala:
\* the collection ends well with the dependencies of the first alone.
C24_Witness ==
    /\ phase = "done"
    /\ BuildSbt \notin project_tree
    /\ BuildSbtWithScalaVersion \notin project_tree
    /\ PluginsSbt \notin project_tree
    /\ VersionsScala \notin project_tree
    /\ DependenciesScala \in project_tree
    /\ NestedScala \in project_tree
    /\ collected = Some(<<[file_path |-> <<"project", "Dependencies.scala">>,
                           dependencies |-> DependenciesScala.dependencies]>>)

-----------------------------------------------------------------------------
(* What the symbol table of a file holds.                                  *)

\* The text of the right-hand side of definition st.
RhsText(st) == Joined(InfixTokens(st, 1), <<" ">>)

\* Where the right-hand side of definition d stands in the code: on the line
\* that reads as the definition reads, before the " }" of its scopes.
RhsSite(tree, d) ==
    LET code == SourceCode(tree)
        line == StatementText(tree[d])
        at == CHOOSE a \in 0..Len(code) :
                  /\ a + Len(line) <= Len(code)
                  /\ SubSeq(code, a + 1, a + Len(line)) = line
        end == at + Len(line) - 2 * Len(tree[d].scopes)
    IN  Span(end - Len(RhsText(tree[d])), end)

\* The names the file defines, in whatever scope.
DefinedNames(tree) == {tree[i].val_name[1] : i \in {j \in DOMAIN tree : IsValDefinition(tree[j])}}

\* The names defined inside the right-hand side of a definition of the file.
NamesInsideDefinitions(tree) ==
    UNION { { TrimQuotes(tree[i].operands[j].children[1].children[1].text) :
                j \in {o \in DOMAIN tree[i].operands : tree[i].operands[o].kind = "block"} } :
            i \in {d \in DOMAIN tree : IsValDefinition(tree[d])} }

\* The names defined inside a statement that is no definition.
NamesInsideOthers(tree) ==
    UNION { { TrimQuotes(tree[i].operands[j].children[1].children[1].text) :
                j \in {o \in DOMAIN tree[i].operands : tree[i].operands[o].kind = "block"} } :
            i \in {d \in DOMAIN tree : ~IsValDefinition(tree[d])} }

\* The table is flat: the definitions of every scope are in it under their
\* simple names, and the definitions inside the right-hand side of another
\* definition are not.
FlatTable ==
    /\ DefinedNames(code_tree) \subseteq DOMAIN val_defs
    /\ NamesInsideOthers(code_tree) \subseteq DOMAIN val_defs
    /\ \A name \in NamesInsideDefinitions(code_tree) :
          name \in DOMAIN val_defs => name \in DefinedNames(code_tree) \cup NamesInsideOthers(code_tree)

\* The entry of name is at the right-hand side of the last definition of name.
LastWinsAtRhs(name) ==
    val_defs[name].location =
        [file_path |-> SourcePath, span |-> RhsSite(code_tree, LastDefinition(code_tree, name))]

\* The entry of name holds the text that stands at its location.
HoldsExactText(name) ==
    val_defs[name].value =
        Slice(SourceCode(code_tree), val_defs[name].location.span.start,
              val_defs[name].location.span.end)

\* The entry of name holds the text that stands at its location, without the
\* double quotes at its ends.
HoldsTextInQuotes(name) ==
    val_defs[name].value =
        TrimQuotes(Slice(SourceCode(code_tree), val_defs[name].location.span.start,
                         val_defs[name].location.span.end))

\* C21: the symbol table of a file is flat and of the file: a definition at
\* any depth of scopes is visible by its simple name, a later definition of a
\* name replaces an earlier one, an entry holds the exact source text and the
\* span of the right-hand side of the definition, and the definitions inside
\* the right-hand side of another definition are not collected.
C21_FlatTableExactRhs ==
    phase = "vals" =>
        /\ FlatTable
        /\ \A name \in DefinedNames(code_tree) : LastWinsAtRhs(name) /\ HoldsExactText(name)

\* The same, the text held being the source text without the double quotes
\* at its ends.
C21_FlatTableRhsInQuotes ==
    phase = "vals" =>
        /\ FlatTable
        /\ \A name \in DefinedNames(code_tree) : LastWinsAtRhs(name) /\ HoldsTextInQuotes(name)

\* The same again, for the definitions that have no type.
C21_FlatTableUntyped ==
    phase = "vals" =>
        /\ FlatTable
        /\ \A name \in DefinedNames(code_tree) :
              code_tree[LastDefinition(code_tree, name)].val_type = None
                  => LastWinsAtRhs(name) /\ HoldsTextInQuotes(name)

-----------------------------------------------------------------------------
(* What main writes for the selected entries.                              *)

\* The elements of set S in some order.
Enumerated(S) ==
    CHOOSE s \in [1..Cardinality(S) -> S] : \A x \in S : \E i \in DOMAIN s : s[i] = x

\* The spans of file f that are locations of selected entries.
SelectedSpans(em, f) ==
    UNION { { em[k].locations[i].span :
                i \in {j \in DOMAIN em[k].locations : em[k].locations[j].file_path = f} } :
            k \in selected(em) }

\* The selected entries that have span sp of file f among their locations.
Owners(em, f, sp) ==
    { k \in selected(em) :
        \E i \in DOMAIN em[k].locations : em[k].locations[i] = Location(f, sp) }

\* The ways to name, for every selected span of file f, a selected entry that
\* has it as a location.
Ownerships(em, f) ==
    { pick \in [SelectedSpans(em, f) -> selected(em)] :
        \A sp \in SelectedSpans(em, f) : pick[sp] \in Owners(em, f, sp) }

\* File f with every selected span holding the quoted new version of the entry
\* pick names for it, and every byte outside those spans as it was.
Rewritten(em, f, pick) ==
    LET spans == Enumerated(SelectedSpans(em, f))
    IN  Replaced(ProjectFiles[f],
                 [i \in DOMAIN spans |->
                     Edit(spans[i], QuotedVersion(current_update_version(em[pick[spans[i]]])[1]))])

\* Two selected entries have a location in common and different new versions.
SharedLocationConflict(em) ==
    \E k, l \in selected(em) :
        /\ l \in SharedWith(em, k)
        /\ current_update_version(em[k]) # current_update_version(em[l])

\* C3: once main has written the updates, every location of every selected
\* entry holds the quoted new version of that entry, whatever literal it held
\* before, and the text outside the locations is as it was, for every
\* combination of selected entries.
C3_SelectedLocationsRewritten ==
    (phase = "done" /\ decided_to_update) =>
        \A f \in DOMAIN files :
            \A pick \in Ownerships(entry_map, f) : files[f] = Rewritten(entry_map, f, pick)

\* The same, for selections in which the entries that share a location have
\* the same new version.
C3_RewrittenWithoutConflict ==
    (phase = "done" /\ decided_to_update /\ ~SharedLocationConflict(entry_map)) =>
        \A f \in DOMAIN files :
            \A pick \in Ownerships(entry_map, f) : files[f] = Rewritten(entry_map, f, pick)

\* A selected entry whose two locations held different literals has been
\* written to both.
C3_Witness ==
    /\ phase = "done"
    /\ decided_to_update
    /\ ~SharedLocationConflict(entry_map)
    /\ \E k \in selected(entry_map) :
          /\ Len(entry_map[k].locations) = 2
          /\ entry_map[k].locations[1] # entry_map[k].locations[2]
    /\ files # ProjectFiles

-----------------------------------------------------------------------------
(* What the handlers of the application keep and change.                   *)

\* What an entry is built with and never loses.
Built(entry) ==
    [group |-> entry.group, artifact |-> entry.artifact,
     version |-> entry.version, locations |-> entry.locations]

\* C25: once the entry map is built, no operation (the versions attached, a
\* selection toggled, all selected or deselected, the tier moved on or back)
\* changes the set of keys or the current version or the locations of an
\* entry; update_options, version_type and is_selected alone change.
C25_BuiltPartIsKept ==
    [][/\ DOMAIN entry_map' = DOMAIN entry_map
       /\ \A k \in DOMAIN entry_map : Built(entry_map'[k]) = Built(entry_map[k])]_vars

\* An entry that has options, is selected and has been moved off the tier it
\* was given when the versions arrived.
C25_Witness ==
    /\ phase = "running"
    /\ \E k \in DOMAIN entry_map :
          /\ entry_map[k].update_options # None
          /\ entry_map[k].is_selected
          /\ entry_map[k].version_type # determine_version_type(entry_map[k].update_options[1])
          /\ entry_map[k].version \in {SemVer(1, 0, 0, NoPre), SemVer(1, 1, 0, NoPre), Other(<<"x">>)}

\* The edits main would make for the selected entries of em: a location and
\* the text written there.
SelectedEdits(em) ==
    UNION { { [location |-> em[k].locations[i],
               text |-> QuotedVersion(current_update_version(em[k])[1])] :
                i \in DOMAIN em[k].locations } : k \in selected(em) }

\* C27: in every state that toggling a selection, toggling all and moving the
\* tier on or back can reach, two selected entries that share a location have
\* the same chosen version, so that no two edits made from the selected
\* entries are for the same location with different texts.
C27_SharedLocationOneVersion ==
    /\ \A k, l \in selected(entry_map) :
          l \in SharedWith(entry_map, k)
              => current_update_version(entry_map[k]) = current_update_version(entry_map[l])
    /\ \A d, e \in SelectedEdits(entry_map) : d.location = e.location => d.text = e.text

\* The same for entries that were given the same update options.
C27_OneVersionWhenSameOptions ==
    \A k, l \in selected(entry_map) :
        (l \in SharedWith(entry_map, k)
            /\ entry_map[k].update_options = entry_map[l].update_options)
            => current_update_version(entry_map[k]) = current_update_version(entry_map[l])

\* The tiers in their order, and the place of a tier in it.
TierOrder == <<"Major", "Minor", "Patch", "PreRelease">>
TierPlace(t) == CHOOSE i \in 1..4 : TierOrder[i] = t

\* The tier j places after tier t (before it, for a negative j), cyclically.
TierAfter(t, j) == TierOrder[((TierPlace(t) - 1 + j + 8) % 4) + 1]

IsPopulated(o, t) ==
    CASE t = "Major" -> o.major # None
      [] t = "Minor" -> o.minor # None
      [] t = "Patch" -> o.patch # None
      [] t = "PreRelease" -> o.pre_release # None

\* The first populated tier of o in the order of the tiers.
FirstPopulated(o) ==
    TierOrder[CHOOSE i \in 1..4 :
                 /\ IsPopulated(o, TierOrder[i])
                 /\ \A j \in 1..(i - 1) : ~IsPopulated(o, TierOrder[j])]

\* The next populated tier of o after t in direction d (1 or -1), cyclically;
\* t itself when it is the only one populated.
NextPopulated(o, t, d) ==
    TierAfter(t, d * (CHOOSE j \in 1..4 :
                         /\ IsPopulated(o, TierAfter(t, d * j))
                         /\ \A i \in 1..(j - 1) : ~IsPopulated(o, TierAfter(t, d * i))))

\* Every entry that has update options is on a populated tier, and yields a
\* chosen version when it is selected.
OnPopulatedTier ==
    \A k \in DOMAIN entry_map :
        entry_map[k].update_options # None =>
            /\ IsPopulated(entry_map[k].update_options[1], entry_map[k].version_type)
            /\ entry_map[k].is_selected => k \in selected(entry_map)

\* The entries given options in this step are on their first populated tier.
AttachedOnFirstPopulated ==
    HandlesVersions =>
        \A k \in DOMAIN entry_map :
            entry_map'[k].update_options # None =>
                entry_map'[k].version_type = FirstPopulated(entry_map'[k].update_options[1])

\* The step is next_version_type (d = 1) or prev_version_type (d = -1) called
\* for the entry under the cursor: that entry is on its next populated tier,
\* and every other entry is on its own next populated tier or where it was.
MovedToNextPopulated(d) ==
    \A k \in DOMAIN entry_map :
        entry_map[k].update_options # None =>
            LET moved == NextPopulated(entry_map[k].update_options[1], entry_map[k].version_type, d)
            IN  IF CursorKey(entry_map, selected_index) = Some(k)
                THEN entry_map'[k].version_type = moved
                ELSE entry_map'[k].version_type \in {moved, entry_map[k].version_type}

\* C28: an entry that has update options is always on a populated tier: the
\* first populated one in the order major, minor, patch, pre-release when the
\* versions are attached, the next populated one in cyclic order after each
\* next_version_type or prev_version_type, which end, the same one when it is
\* the only one; a selected entry with update options yields a chosen version.
C28_AlwaysOnPopulatedTier ==
    /\ []OnPopulatedTier
    /\ [][/\ AttachedOnFirstPopulated
          /\ KeyNextVersion => MovedToNextPopulated(1)
          /\ KeyPrevVersion => MovedToNextPopulated(-1)]_vars

\* An entry with a major and a minor option and nothing else, on Minor: from
\* Major, it was moved on once, or back over PreRelease and Patch.
C28_Witness ==
    /\ phase = "running"
    /\ \E k \in DOMAIN entry_map :
          /\ entry_map[k].update_options # None
          /\ entry_map[k].update_options[1].major # None
          /\ entry_map[k].update_options[1].minor # None
          /\ entry_map[k].update_options[1].patch = None
          /\ entry_map[k].update_options[1].pre_release = None
          /\ entry_map[k].version_type = "Minor"
          /\ entry_map[k].is_selected
          /\ current_update_version(entry_map[k]) = entry_map[k].update_options[1].minor

\* The cursor is on an entry of the list of entries with updates.
CursorValid == selected_index < Len(with_updates(entry_map))

\* C29: for any sequence of key events and the versions-retrieved message,
\* no handler faults, and whenever the list of entries with updates is not
\* empty the cursor is a valid index into it, key events handled before the
\* versions arrive, while the list is empty, included.
C29_NeverFaultsCursorValid ==
    /\ phase # "panicked"
    /\ with_updates(entry_map) # <<>> => CursorValid

\* The same from the moment the list is not empty and the cursor is valid:
\* no handler faults, the cursor stays valid, down and up move it by one
\* modulo the length of the list.
C29_NoFaultOnceCursorValid ==
    [][(phase = "running" /\ CursorValid) =>
          /\ phase' # "panicked"
          /\ with_updates(entry_map') = with_updates(entry_map)
          /\ selected_index' < Len(with_updates(entry_map'))
          /\ KeyDown => selected_index' = (selected_index + 1) % Len(with_updates(entry_map))
          /\ KeyUp => selected_index' =
                (selected_index + Len(with_updates(entry_map)) - 1) % Len(with_updates(entry_map))]_vars

\* No file of the project has been written.
NothingWritten == files = ProjectFiles

\* Edit e is in its file: its text stands where its location starts.
IsWritten(e) ==
    LET content == files[e.location.file_path]
        start == e.location.span.start
    IN  /\ start + Len(e.text) <= Len(content)
        /\ SubSeq(content, start + 1, start + Len(e.text)) = e.text

\* Byte i of file f is before every location of the selected entries.
BeforeSelected(f, i) ==
    \A e \in SelectedEdits(entry_map) : e.location.file_path = f => i <= e.location.span.start

\* The files are written in the last step of main and in no other, and only
\* when the user has confirmed with Enter: a run that ends by 'q', or because
\* no entry has an update, writes nothing.
WrittenOnlyAfterEnter ==
    /\ phase # "done" => NothingWritten
    /\ ~decided_to_update => NothingWritten

\* What is written comes from the entries selected when Enter was pressed,
\* on the tier they were on: every byte before the first selected location of
\* a file is as it was, and where a selected location starts there stands one
\* of the texts that the selected entries have for that location.
WrittenFromSelection ==
    (phase = "done" /\ decided_to_update) =>
        /\ \A f \in DOMAIN files :
              \A i \in 1..Len(ProjectFiles[f]) :
                  BeforeSelected(f, i) => files[f][i] = ProjectFiles[f][i]
        /\ \A e \in SelectedEdits(entry_map) :
              \E d \in SelectedEdits(entry_map) : d.location = e.location /\ IsWritten(d)

\* C30: the files of the project are written only after the user confirms
\* with Enter: a run that ends by 'q' or because no entry has an update writes
\* no file, and in a run that ends with Enter the edits written are exactly
\* those of the entries selected at that moment on their tier of that moment.
C30_WrittenOnlyOnEnterExactlySelected ==
    /\ WrittenOnlyAfterEnter
    /\ WrittenFromSelection
    /\ (phase = "done" /\ decided_to_update) =>
          \A e \in SelectedEdits(entry_map) : IsWritten(e)

\* The same, with one edit written for each location of the selected entries.
C30_WrittenOnlyOnEnterFromSelected ==
    /\ WrittenOnlyAfterEnter
    /\ WrittenFromSelection

-----------------------------------------------------------------------------
(* What the dependency map holds.                                          *)

CallKey(call) == <<call.dependency.group, call.dependency.artifact>>

\* The calls of cs made for key k, in their order.
RECURSIVE CallsFor(_, _)
CallsFor(cs, k) ==
    IF cs = <<>> THEN <<>>
    ELSE (IF CallKey(cs[1]) = k THEN <<cs[1]>> ELSE <<>>) \o CallsFor(Tail(cs), k)

\* s is the beginning of t.
IsPrefix(s, t) == Len(s) <= Len(t) /\ SubSeq(t, 1, Len(s)) = s

Range(s) == {s[i] : i \in DOMAIN s}

\* For every key: it is in the map exactly when a record was merged for it,
\* its version is the maximum of the versions merged for it and its locations
\* are the locations merged for it, one per record.
MapHoldsMerged ==
    \A k \in MergeKeys :
        LET cs == CallsFor(merged, k)
        IN  IF cs = <<>> THEN k \notin DOMAIN map
            ELSE /\ k \in DOMAIN map
                 /\ Some(map[k].version) =
                        Greatest({cs[i].dependency.version.value : i \in DOMAIN cs})
                 /\ map[k].locations = [i \in DOMAIN cs |-> cs[i].location]

\* A step removes no key, lowers no version and removes no location.
MapOnlyGrows ==
    \A k \in DOMAIN map :
        /\ k \in DOMAIN map'
        /\ VersionCmp(map'[k].version, map[k].version) # "Less"
        /\ IsPrefix(map[k].locations, map'[k].locations)

\* C4: after any sequence of merges, for every key the stored version is the
\* maximum under the version ordering of the versions merged for it and the
\* stored locations hold the location of every record merged for it, one per
\* record, those of lower versions included; the stored version never
\* decreases and no location is ever removed.
C4_MapHoldsMaxAndAllLocations == []MapHoldsMerged /\ [][MapOnlyGrows]_vars

\* a key merged at 2.0.0 and then at 1.0.0-RC1 from another location
C4_Witness ==
    \E k \in DOMAIN map :
        /\ Len(map[k].locations) = 2
        /\ map[k].locations[1] # map[k].locations[2]
        /\ map[k].version = SemVer(2, 0, 0, NoPre)
        /\ CallsFor(merged, k)[2].dependency.version.value = SemVer(1, 0, 0, RC(1))

\* The map that merging the calls cs into an empty map gives.
RECURSIVE MergeAll(_, _)
MergeAll(m, cs) ==
    IF cs = <<>> THEN m
    ELSE MergeAll(add_dependency(m, cs[1].dependency, cs[1].location), Tail(cs))

\* C5: merging the same records into an empty map in any order gives, for
\* every key, the same stored version and the same set of locations.
C5_MergeOrderIndependent ==
    \A p \in Perms(Len(merged)) :
        LET other == MergeAll(EmptyMap, Permuted(merged, p))
        IN  /\ DOMAIN other = DOMAIN map
            /\ \A k \in DOMAIN map :
                   /\ other[k].version = map[k].version
                   /\ Range(other[k].locations) = Range(map[k].locations)

\* three records of one key, the greatest version merged second
C5_Witness ==
    /\ Len(merged) = 3
    /\ \E k \in DOMAIN map :
          /\ Len(CallsFor(merged, k)) = 3
          /\ map[k].version = merged[2].dependency.version.value
          /\ map[k].version # merged[1].dependency.version.value
          /\ map[k].version # merged[3].dependency.version.value
          /\ Cardinality(Range(map[k].locations)) = 2

====
